---- MODULE Spec2Model ----
(***************************************************************************)
(* Model of the activity store, the occurrence generator and the           *)
(* notification scheduler of src/components/providers/app-provider.tsx.    *)
(*                                                                         *)
(* A Date is its number of seconds since 1970-01-01T00:00 local time (the  *)
(* local zone has no daylight-saving shift). undefined/null numbers are 0  *)
(* (the code tests them by truthiness), an optional array or "HH:MM" time  *)
(* is <<>> when undefined and <<value>> when defined.                      *)
(***************************************************************************)
EXTENDS Integers, Sequences, FiniteSets, Bags, TLC

VARIABLES
    dateFnsMajor,              \* major version of the date-fns build: 2 or 3
    genActivity,               \* generator harness: masterActivity
    genRangeStart,             \* generator harness: rangeStartDate
    genRangeEnd,               \* generator harness: rangeEndDate
    genResult,                 \* generator harness: outcome of the call
    personalActivities,        \* useState<Activity[]>
    workActivities,            \* useState<Activity[]>
    appModeState,              \* "personal" | "work"
    nextUuid,                  \* number of uuidv4() values drawn so far
    lastOp,                    \* the last store operation and the ledger before it
    now,                       \* wall clock
    lastNotificationCheckDay,  \* day-of-month of the previous tick, 0 = null
    notifiedToday,             \* Set<string> of notification keys
    uiNotifications,           \* UINotification[], newest first
    emitted,                   \* history: bag of <<key, calendar day>> emitted
    notificationUuids,         \* number of uuidv4() values addUINotification drew
    systemNotifications,       \* number of system notifications shown
    notificationsCleared,      \* history: notificationUuids at the last clear
    notificationPermission,    \* Notification.permission, "unsupported" without the API
    notificationThrows,        \* whether the browser's new Notification(...) throws
    historyLog,                \* HistoryLogEntry[], newest first
    historyFollowed,           \* whether the specification follows the history log
    allCategories,             \* Category[]: { id, name, mode }
    allAssignees,              \* Assignee[]: { id, name }
    isAuthenticated,           \* per tab: the isAuthenticated state
    subscribedIsAuthenticated, \* per tab: isAuthenticated as the subscribed
                               \* handleLogoutMessage closed over it
    logoutEvents,              \* per tab: 'logout_event' messages not yet delivered
    swController,              \* whether navigator.serviceWorker.controller is there
    swPosted,                  \* the message types posted to the controller, in order
    pomodoroWarnings,          \* number of 'pomodoroSWNotReady' toasts shown
    pomodoroPhase,
    pomodoroTimeRemaining,
    pomodoroIsRunning,
    pomodoroCyclesCompleted,
    isPomodoroReady,
    isLoading,                 \* useState<boolean>(true), line 296
    intervalId,                \* the scheduler's interval: <<>> or <<instant it was set or last ran>>
    lastTickAt                 \* <<>> or <<instant of the session's start or of its last tick>>

genVars   == <<dateFnsMajor, genActivity, genRangeStart, genRangeEnd, genResult>>
storeVars == <<personalActivities, workActivities, appModeState, nextUuid, lastOp,
               historyLog>>
schedVars == <<now, lastNotificationCheckDay, notifiedToday, uiNotifications, emitted,
               notificationUuids, systemNotifications>>
pomodoroVars == <<swController, swPosted, pomodoroWarnings, pomodoroPhase,
                  pomodoroTimeRemaining, pomodoroIsRunning, pomodoroCyclesCompleted,
                  isPomodoroReady>>
intervalVars == <<isLoading, intervalId, lastTickAt>>
shellVars == <<notificationsCleared, notificationPermission, notificationThrows,
               historyFollowed, allCategories, allAssignees,
               isAuthenticated, subscribedIsAuthenticated, logoutEvents, pomodoroVars,
               intervalVars>>
vars      == <<genVars, storeVars, schedVars, shellVars>>

\* bound: uuidv4() values drawn in one behaviour
MaxUuid == 1

(***************************************************************************)
(* Calendar: the proleptic Gregorian calendar of the JavaScript Date.      *)
(***************************************************************************)
SecondsPerDay == 24 * 60 * 60

DayOf(ts) == ts \div SecondsPerDay

TimeOfDay(ts) == ts % SecondsPerDay

\* civil date [y, m, d] of a day number (days since 1970-01-01)
Civil(days) ==
    LET z   == days + 719468
        era == z \div 146097
        doe == z - era * 146097
        yoe == (doe - (doe \div 1460) + (doe \div 36524) - (doe \div 146096)) \div 365
        doy == doe - (365 * yoe + (yoe \div 4) - (yoe \div 100))
        mp  == (5 * doy + 2) \div 153
        d   == doy - ((153 * mp + 2) \div 5) + 1
        m   == IF mp < 10 THEN mp + 3 ELSE mp - 9
    IN  [y |-> yoe + era * 400 + (IF m <= 2 THEN 1 ELSE 0), m |-> m, d |-> d]

\* day number of a civil date; months outside 1..12 roll into other years
DaysFromCivil(year, month, day) ==
    LET yy  == year + ((month - 1) \div 12)
        mm  == ((month - 1) % 12) + 1
        y   == IF mm <= 2 THEN yy - 1 ELSE yy
        era == y \div 400
        yoe == y - era * 400
        doy == ((153 * (IF mm > 2 THEN mm - 3 ELSE mm + 9) + 2) \div 5) + day - 1
        doe == yoe * 365 + (yoe \div 4) - (yoe \div 100) + doy
    IN  era * 146097 + doe - 719468

\* new Date(y, m-1, d, h, mi).getTime(), in seconds
TS(y, m, d, h, mi) == DaysFromCivil(y, m, d) * SecondsPerDay + h * 3600 + mi * 60

getDay(date) == (DayOf(date) + 4) % 7

getDate(date) == Civil(DayOf(date)).d

\* formatISO(date, { representation: 'date' }): the text "YYYY-MM-DD" as <<Y, M, D>>
formatISO(date) == LET c == Civil(DayOf(date)) IN <<c.y, c.m, c.d>>

isBefore(a, b) == a < b

isAfter(a, b) == a > b

addDays(date, n) == date + n * SecondsPerDay

subDays(date, n) == addDays(date, -n)

subWeeks(date, n) == addDays(date, -(7 * n))

dateFnsStartOfDay(date) == date - TimeOfDay(date)

\* 23:59:59.999 of the day, at the resolution of one second
dateFnsEndOfDay(date) == dateFnsStartOfDay(date) + SecondsPerDay - 1

getStartOfDayUtil(date) == date - TimeOfDay(date)

isSameDay(a, b) == dateFnsStartOfDay(a) = dateFnsStartOfDay(b)

\* Date.prototype.setDate: day-of-month set in the date's month, overflowing
\* into the following month when the month is shorter
setDayOfMonthFn(date, dayOfMonth) ==
    LET c == Civil(DayOf(date))
    IN  (DaysFromCivil(c.y, c.m, 1) + dayOfMonth - 1) * SecondsPerDay + TimeOfDay(date)

\* date-fns addMonths: same day-of-month in the target month, clamped to the
\* target month's last day
addMonths(date, amount) ==
    LET c           == Civil(DayOf(date))
        endOfMonth  == DaysFromCivil(c.y, c.m + amount + 1, 1) - 1
        daysInMonth == Civil(endOfMonth).d
        day         == IF c.d >= daysInMonth THEN endOfMonth
                       ELSE DaysFromCivil(c.y, c.m + amount, c.d)
    IN  day * SecondsPerDay + TimeOfDay(date)

\* date-fns 2 raises RangeError("Invalid interval") when start is after end
isWithinIntervalThrows(start, end) == dateFnsMajor = 2 /\ start > end

\* date-fns 3 sorts the two ends of the interval before comparing
isWithinInterval(date, start, end) ==
    LET lo == IF start <= end THEN start ELSE end
        hi == IF start <= end THEN end ELSE start
    IN  date >= lo /\ date <= hi

(***************************************************************************)
(* Data model                                                              *)
(***************************************************************************)
NoRule == [type |-> "none", endDate |-> 0, daysOfWeek |-> <<>>, dayOfMonth |-> 0]

Rule(type, endDate, daysOfWeek, dayOfMonth) ==
    [type |-> type, endDate |-> endDate, daysOfWeek |-> daysOfWeek,
     dayOfMonth |-> dayOfMonth]

\* Array.prototype.includes
includes(arr, x) == \E i \in 1..Len(arr) : arr[i] = x

\* recurrence.daysOfWeek?.includes(day)
daysOfWeekIncludes(recurrence, day) ==
    /\ recurrence.daysOfWeek # <<>>
    /\ includes(recurrence.daysOfWeek[1], day)

\* !!masterActivity.completedOccurrences?.[occurrenceDateKey]
isInstanceCompleted(masterActivity, occurrenceDateKey) ==
    /\ occurrenceDateKey \in DOMAIN masterActivity.completedOccurrences
    /\ masterActivity.completedOccurrences[occurrenceDateKey]

(***************************************************************************)
(* generateFutureInstancesForNotifications                                 *)
(***************************************************************************)
maxIterations == 366

FutureInstance(date, masterActivity) ==
    [instanceDate |-> date, masterActivityId |-> masterActivity.id]

\* the weekly fast-forward loop of lines 160-164
RECURSIVE weeklyFastForward(_, _, _, _)
weeklyFastForward(tempDate, masterActivity, rangeStartDate, rangeEndDate) ==
    IF \/ isBefore(tempDate, masterActivity.createdAt)
       \/ ~includes(masterActivity.recurrence.daysOfWeek[1], getDay(tempDate))
       \/ isBefore(tempDate, rangeStartDate)
    THEN LET next == addDays(tempDate, 1)
         IN  IF isAfter(next, rangeEndDate) THEN next
             ELSE weeklyFastForward(next, masterActivity, rangeStartDate, rangeEndDate)
    ELSE tempDate

\* the number of addDays steps the loop of lines 160-164 takes
RECURSIVE weeklyFastForwardSteps(_, _, _, _)
weeklyFastForwardSteps(tempDate, masterActivity, rangeStartDate, rangeEndDate) ==
    IF \/ isBefore(tempDate, masterActivity.createdAt)
       \/ ~includes(masterActivity.recurrence.daysOfWeek[1], getDay(tempDate))
       \/ isBefore(tempDate, rangeStartDate)
    THEN LET next == addDays(tempDate, 1)
         IN  IF isAfter(next, rangeEndDate) THEN 1
             ELSE 1 + weeklyFastForwardSteps(next, masterActivity,
                                             rangeStartDate, rangeEndDate)
    ELSE 0

\* the monthly fast-forward of lines 167-176
monthlyFastForward(masterActivity, rangeStartDate) ==
    LET dayOfMonth == masterActivity.recurrence.dayOfMonth
        first      == setDayOfMonthFn(masterActivity.createdAt, dayOfMonth)
        tempMasterStartMonthDay ==
            IF isBefore(first, masterActivity.createdAt) THEN addMonths(first, 1)
            ELSE first
        inRange    == setDayOfMonthFn(rangeStartDate, dayOfMonth)
        current    == IF isBefore(inRange, rangeStartDate) THEN addMonths(inRange, 1)
                      ELSE inRange
    IN  IF isBefore(current, tempMasterStartMonthDay) THEN tempMasterStartMonthDay
        ELSE current

\* currentDate on entry of the main loop (lines 154-178)
startDate(masterActivity, rangeStartDate, rangeEndDate) ==
    LET recurrence == masterActivity.recurrence
        createdAt  == masterActivity.createdAt
    IN  IF ~isBefore(createdAt, rangeStartDate) THEN createdAt
        ELSE IF recurrence.type = "daily" THEN rangeStartDate
        ELSE IF /\ recurrence.type = "weekly"
                /\ recurrence.daysOfWeek # <<>>
                /\ Len(recurrence.daysOfWeek[1]) > 0
             THEN weeklyFastForward(dateFnsStartOfDay(rangeStartDate), masterActivity,
                                    rangeStartDate, rangeEndDate)
        ELSE IF recurrence.type = "monthly" /\ recurrence.dayOfMonth # 0
             THEN monthlyFastForward(masterActivity, rangeStartDate)
        ELSE createdAt

\* the switch of lines 201-216 reading the day of the month (getDate) where
\* the weekly case reads the weekday (getDay)
isValidOccurrence_GetDate(recurrence, currentDate) ==
    CASE recurrence.type = "daily"   -> TRUE
      [] recurrence.type = "weekly"  -> daysOfWeekIncludes(recurrence, getDate(currentDate))
      [] recurrence.type = "monthly" ->
            recurrence.dayOfMonth # 0 /\ getDate(currentDate) = recurrence.dayOfMonth
      [] OTHER -> FALSE

\* the switch of lines 201-216 with the monthly case accepting every
\* candidate the walk lands on (no getDate comparison)
isValidOccurrence_AnyMonthlyCandidate(recurrence, currentDate) ==
    CASE recurrence.type = "daily"   -> TRUE
      [] recurrence.type = "weekly"  -> daysOfWeekIncludes(recurrence, getDay(currentDate))
      [] recurrence.type = "monthly" -> recurrence.dayOfMonth # 0
      [] OTHER -> FALSE

\* the switch of lines 201-216
isValidOccurrence(recurrence, currentDate) ==
    CASE recurrence.type = "daily"   -> TRUE
      [] recurrence.type = "weekly"  -> daysOfWeekIncludes(recurrence, getDay(currentDate))
      [] recurrence.type = "monthly" ->
            recurrence.dayOfMonth # 0 /\ getDate(currentDate) = recurrence.dayOfMonth
      [] OTHER -> FALSE

\* the step taken while currentDate is before createdAt (lines 190-198)
catchUpDate(recurrence, currentDate) ==
    IF recurrence.type \in {"daily", "weekly"} THEN addDays(currentDate, 1)
    ELSE LET nextMonth == addMonths(currentDate, 1)
         IN  IF recurrence.dayOfMonth # 0
             THEN setDayOfMonthFn(nextMonth, recurrence.dayOfMonth)
             ELSE nextMonth

\* lines 230-251 with the weekly rule stepping a week (addWeeks) at a time
nextDate_WeeklyByWeek(recurrence, currentDate) ==
    IF recurrence.type = "daily" THEN addDays(currentDate, 1)
    ELSE IF recurrence.type = "weekly" THEN addDays(currentDate, 7)
    ELSE IF recurrence.dayOfMonth # 0
         THEN LET currentMonthTargetDay ==
                      setDayOfMonthFn(currentDate, recurrence.dayOfMonth)
              IN  IF /\ isAfter(currentMonthTargetDay, currentDate)
                     /\ getDate(currentMonthTargetDay) = recurrence.dayOfMonth
                  THEN currentMonthTargetDay
                  ELSE setDayOfMonthFn(addMonths(currentDate, 1), recurrence.dayOfMonth)
         ELSE addDays(currentDate, 1)

\* the step at the end of an iteration (lines 230-251)
nextDate(recurrence, currentDate) ==
    IF recurrence.type \in {"daily", "weekly"} THEN addDays(currentDate, 1)
    ELSE IF recurrence.dayOfMonth # 0
         THEN LET currentMonthTargetDay ==
                      setDayOfMonthFn(currentDate, recurrence.dayOfMonth)
              IN  IF /\ isAfter(currentMonthTargetDay, currentDate)
                     /\ getDate(currentMonthTargetDay) = recurrence.dayOfMonth
                  THEN currentMonthTargetDay
                  ELSE setDayOfMonthFn(addMonths(currentDate, 1), recurrence.dayOfMonth)
         ELSE addDays(currentDate, 1)

\* lines 218-228 without the ledger lookup
pushIfPending_IgnoresLedger(instances, masterActivity, currentDate) ==
    Append(instances, FutureInstance(currentDate, masterActivity))

\* lines 218-228 with unshift in place of push: the newest instance first
pushIfPending_Unshift(instances, masterActivity, currentDate) ==
    IF isInstanceCompleted(masterActivity, formatISO(currentDate)) THEN instances
    ELSE <<FutureInstance(currentDate, masterActivity)>> \o instances

\* lines 218-228: the instance is appended unless the ledger marks it complete
pushIfPending(instances, masterActivity, currentDate) ==
    IF isInstanceCompleted(masterActivity, formatISO(currentDate)) THEN instances
    ELSE Append(instances, FutureInstance(currentDate, masterActivity))

\* line 188 without the break: the series end is never looked at
pastSeriesEnd_Never(recurrence, currentDate) == FALSE

\* line 188: the series ends at recurrence.endDate
pastSeriesEnd(recurrence, currentDate) ==
    recurrence.endDate # 0 /\ isAfter(currentDate, recurrence.endDate)

\* lines 185-252 with the loop condition reduced to
\* !isAfter(currentDate, rangeEndDate): no cap on the iterations
loopStep_Uncapped(masterActivity, rangeEndDate, st) ==
    LET recurrence  == masterActivity.recurrence
        currentDate == st.currentDate
    IN  IF st.done THEN st
        ELSE IF isAfter(currentDate, rangeEndDate)
        THEN [st EXCEPT !.done = TRUE]
        ELSE IF pastSeriesEnd(recurrence, currentDate)
        THEN [st EXCEPT !.done = TRUE, !.iterations = @ + 1]
        ELSE IF isBefore(currentDate, masterActivity.createdAt)
        THEN [st EXCEPT !.currentDate = catchUpDate(recurrence, currentDate),
                        !.iterations = @ + 1]
        ELSE [st EXCEPT !.currentDate = nextDate(recurrence, currentDate),
                        !.iterations = @ + 1,
                        !.instances =
                            IF isValidOccurrence(recurrence, currentDate)
                            THEN pushIfPending(@, masterActivity, currentDate)
                            ELSE @]

\* one evaluation of the loop condition and, when it holds, of the loop body
\* (lines 185-252); st = [currentDate, iterations, instances, done]
loopStep(masterActivity, rangeEndDate, st) ==
    LET recurrence  == masterActivity.recurrence
        currentDate == st.currentDate
    IN  IF st.done THEN st
        ELSE IF ~(st.iterations < maxIterations /\ ~isAfter(currentDate, rangeEndDate))
        THEN [st EXCEPT !.done = TRUE]
        ELSE IF pastSeriesEnd(recurrence, currentDate)
        THEN [st EXCEPT !.done = TRUE, !.iterations = @ + 1]
        ELSE IF isBefore(currentDate, masterActivity.createdAt)
        THEN [st EXCEPT !.currentDate = catchUpDate(recurrence, currentDate),
                        !.iterations = @ + 1]
        ELSE [st EXCEPT !.currentDate = nextDate(recurrence, currentDate),
                        !.iterations = @ + 1,
                        !.instances =
                            IF isValidOccurrence(recurrence, currentDate)
                            THEN pushIfPending(@, masterActivity, currentDate)
                            ELSE @]

\* n consecutive loopSteps, composed by halves; the state after the first
\* half is computed once and bound to half
RECURSIVE loopRun(_, _, _, _)
loopRun(masterActivity, rangeEndDate, st, n) ==
    IF n = 0 THEN st
    ELSE IF n = 1 THEN loopStep(masterActivity, rangeEndDate, st)
    ELSE CHOOSE result \in
             { IF half.done THEN half
               ELSE loopRun(masterActivity, rangeEndDate, half, n - (n \div 2)) :
               half \in { loopRun(masterActivity, rangeEndDate, st, n \div 2) } } : TRUE

\* the while loop of lines 185-252 run to its exit: at most maxIterations
\* bodies and the failing condition after them
generateLoop(masterActivity, rangeEndDate, currentDate) ==
    CHOOSE result \in
        { loopRun(masterActivity, rangeEndDate, st, maxIterations + 1) :
          st \in { [currentDate |-> currentDate, iterations |-> 0,
                    instances |-> <<>>, done |-> FALSE] } } : TRUE

\* lines 144-150: the branch of a non-recurring activity
singleInstance(masterActivity, rangeStartDate, rangeEndDate) ==
    IF /\ isWithinInterval(masterActivity.createdAt, rangeStartDate, rangeEndDate)
       /\ ~masterActivity.completed
    THEN <<FutureInstance(masterActivity.createdAt, masterActivity)>>
    ELSE <<>>

\* the sequence the call returns when it returns
generateFutureInstancesForNotifications(masterActivity, rangeStartDate, rangeEndDate) ==
    IF masterActivity.recurrence.type = "none"
    THEN singleInstance(masterActivity, rangeStartDate, rangeEndDate)
    ELSE generateLoop(masterActivity, rangeEndDate,
                      startDate(masterActivity, rangeStartDate, rangeEndDate)).instances

\* the loop's state when the call returns: iterations counts the bodies run,
\* currentDate is the candidate the loop stopped at
generateExit(masterActivity, rangeStartDate, rangeEndDate) ==
    IF masterActivity.recurrence.type = "none"
    THEN [currentDate |-> masterActivity.createdAt, iterations |-> 0,
          instances |-> singleInstance(masterActivity, rangeStartDate, rangeEndDate),
          done |-> TRUE]
    ELSE generateLoop(masterActivity, rangeEndDate,
                      startDate(masterActivity, rangeStartDate, rangeEndDate))

\* the steps of the weekly fast-forward loop during the call (0 when the
\* call does not enter it)
fastForwardSteps(masterActivity, rangeStartDate, rangeEndDate) ==
    IF /\ isBefore(masterActivity.createdAt, rangeStartDate)
       /\ masterActivity.recurrence.type = "weekly"
       /\ masterActivity.recurrence.daysOfWeek # <<>>
       /\ Len(masterActivity.recurrence.daysOfWeek[1]) > 0
    THEN weeklyFastForwardSteps(dateFnsStartOfDay(rangeStartDate), masterActivity,
                                rangeStartDate, rangeEndDate)
    ELSE 0

\* whether the call raises instead of returning
generateThrows(masterActivity, rangeStartDate, rangeEndDate) ==
    /\ masterActivity.recurrence.type = "none"
    /\ isWithinIntervalThrows(rangeStartDate, rangeEndDate)

\* an Activity record; title and notes carry no behaviour and are left out
Activity(id, createdAt, time, recurrence, completed, completedOccurrences) ==
    [id |-> id, categoryId |-> "c1", todos |-> <<>>, createdAt |-> createdAt,
     time |-> time, completed |-> completed, recurrence |-> recurrence,
     completedOccurrences |-> completedOccurrences, responsiblePersonId |-> ""]

\* the empty object {} of a ledger
EmptyLedger == [k \in {} |-> TRUE]

Ledger(keys) == [k \in keys |-> TRUE]

(***************************************************************************)
(* Specification SpecGen: the generator applied to activities and windows  *)
(* drawn from bounded sets.                                                *)
(***************************************************************************)
GenAnchors ==
    { TS(2024, 1, 15, 9, 0), TS(2024, 1, 31, 0, 0), TS(2024, 3, 4, 10, 30),
      TS(2021, 6, 10, 9, 0) }

GenEndDates == { 0, TS(2024, 4, 15, 0, 0), TS(2024, 3, 8, 0, 0), TS(2024, 3, 1, 0, 0) }

GenRuleShapes ==
    { <<"none", <<>>, 0>>, <<"daily", <<>>, 0>>,
      <<"weekly", << <<1, 3, 5>> >>, 0>>, <<"weekly", << <<0, 6>> >>, 0>>,
      <<"weekly", << <<>> >>, 0>>,
      <<"weekly", <<>>, 0>>,
      <<"monthly", <<>>, 15>>, <<"monthly", <<>>, 31>>, <<"monthly", <<>>, 0>> }

\* a rule of type none is the literal { type: 'none' } (lines 1054, 1075)
\* and carries no end date
GenRules ==
    { Rule(p[1][1], p[2], p[1][2], p[1][3]) :
        p \in { q \in GenRuleShapes \X GenEndDates : q[1][1] = "none" => q[2] = 0 } }

GenLedgers == { EmptyLedger, Ledger({<<2024, 2, 15>>}), Ledger({<<2024, 3, 6>>}) }

GenActivities ==
    { Activity(1, c, <<>>, r, done, l) :
        c \in GenAnchors, r \in GenRules, done \in BOOLEAN, l \in GenLedgers }

\* <<rangeStartDate, rangeEndDate>>: a year, one day, the scheduler's eight
\* days from 5 March and from 8 March, a month before the anchors of 2024, two months that start in
\* February, thirteen months, and two windows whose start is after their end
GenWindows ==
    { <<TS(2024, 1, 1, 0, 0), TS(2024, 12, 31, 0, 0)>>,
      <<TS(2024, 3, 4, 0, 0), dateFnsEndOfDay(TS(2024, 3, 4, 0, 0))>>,
      <<TS(2024, 3, 5, 0, 0), TS(2024, 3, 12, 0, 0)>>,
      <<TS(2024, 3, 8, 0, 0), TS(2024, 3, 15, 0, 0)>>,
      <<TS(2023, 12, 1, 0, 0), TS(2023, 12, 31, 0, 0)>>,
      <<TS(2024, 2, 1, 0, 0), TS(2024, 4, 1, 0, 0)>>,
      <<TS(2024, 1, 1, 0, 0), TS(2025, 1, 31, 0, 0)>>,
      <<TS(2024, 12, 31, 0, 0), TS(2024, 1, 1, 0, 0)>>,
      <<TS(2024, 3, 12, 0, 0), TS(2024, 3, 5, 0, 0)>> }

NotCalled ==
    [called |-> FALSE, threw |-> FALSE, instances |-> <<>>,
     iterations |-> 0, lastDate |-> 0, fastForwardSteps |-> 0]

\* the record of one call that returned
Returned(masterActivity, rangeStartDate, rangeEndDate) ==
    CHOOSE result \in
        { [called |-> TRUE, threw |-> FALSE, instances |-> exit.instances,
           iterations |-> exit.iterations, lastDate |-> exit.currentDate,
           fastForwardSteps |->
               fastForwardSteps(masterActivity, rangeStartDate, rangeEndDate)] :
          exit \in { generateExit(masterActivity, rangeStartDate, rangeEndDate) } } : TRUE

InitStoreIdle ==
    /\ personalActivities = <<>>
    /\ workActivities = <<>>
    /\ appModeState = "personal"
    /\ nextUuid = 0
    /\ lastOp = [op |-> "none"]
    /\ historyLog = <<>>

InitSchedIdle ==
    /\ now = 0
    /\ lastNotificationCheckDay = 0
    /\ notifiedToday = {}
    /\ uiNotifications = <<>>
    /\ emitted = EmptyBag
    /\ notificationUuids = 0
    /\ systemNotifications = 0

POMODORO_WORK_DURATION_SECONDS == 25 * 60

\* lines 320-324, with a controller and nothing posted
InitPomodoroIdle ==
    /\ swController = TRUE
    /\ swPosted = <<>>
    /\ pomodoroWarnings = 0
    /\ pomodoroPhase = "off"
    /\ pomodoroTimeRemaining = POMODORO_WORK_DURATION_SECONDS
    /\ pomodoroIsRunning = FALSE
    /\ pomodoroCyclesCompleted = 0
    /\ isPomodoroReady = FALSE

\* loading is over; a specification that does not follow the interval's
\* timer keeps no record of it
InitIntervalIdle ==
    /\ isLoading = FALSE
    /\ intervalId = <<>>
    /\ lastTickAt = <<>>

\* one tab, authenticated, with its handler subscribed and no message; the
\* timer as constructed
InitTabsIdle ==
    /\ isAuthenticated = <<TRUE>>
    /\ subscribedIsAuthenticated = <<TRUE>>
    /\ logoutEvents = <<0>>
    /\ InitPomodoroIdle
    /\ InitIntervalIdle

\* the state no specification but the one it belongs to moves
InitShellIdle ==
    /\ notificationsCleared = 0
    /\ notificationPermission = "default"
    /\ notificationThrows = FALSE
    /\ historyFollowed = FALSE
    /\ allCategories = <<>>
    /\ allAssignees = <<>>
    /\ InitTabsIdle

InitGen ==
    /\ dateFnsMajor \in {2, 3}
    /\ genActivity \in GenActivities
    /\ \E w \in GenWindows : genRangeStart = w[1] /\ genRangeEnd = w[2]
    /\ genResult = NotCalled
    /\ InitStoreIdle
    /\ InitSchedIdle
    /\ InitShellIdle

\* one call generateFutureInstancesForNotifications(genActivity, start, end)
Generate ==
    /\ ~genResult.called
    /\ genResult' =
         IF generateThrows(genActivity, genRangeStart, genRangeEnd)
         THEN [NotCalled EXCEPT !.called = TRUE, !.threw = TRUE]
         ELSE Returned(genActivity, genRangeStart, genRangeEnd)
    /\ UNCHANGED <<dateFnsMajor, genActivity, genRangeStart, genRangeEnd>>
    /\ UNCHANGED <<storeVars, schedVars, shellVars>>

NextGen == Generate

SpecGen == InitGen /\ [][NextGen]_vars

(***************************************************************************)
(* Claims on the generator (SpecGen)                                       *)
(***************************************************************************)
\* C4: a monthly series anchored on its dayOfMonth at 09:00, ending on the
\* calendar date of a later occurrence and generated over a window that
\* covers it, has one instance per month up to and including the one on the
\* end date's day (2024-01-15T09:00, day 15, end 2024-04-15, window 2024:
\* Jan 15, Feb 15, Mar 15, Apr 15)
C4_MonthlySeriesReachesEndDay ==
    ( /\ genResult.called
      /\ genActivity.recurrence.type = "monthly"
      /\ genActivity.recurrence.dayOfMonth = 15
      /\ genActivity.createdAt = TS(2024, 1, 15, 9, 0)
      /\ genActivity.recurrence.endDate = TS(2024, 4, 15, 0, 0)
      /\ genActivity.completedOccurrences = EmptyLedger
      /\ genRangeStart = TS(2024, 1, 1, 0, 0)
      /\ genRangeEnd = TS(2024, 12, 31, 0, 0) )
    => /\ ~genResult.threw
       /\ [i \in 1..Len(genResult.instances) |-> formatISO(genResult.instances[i].instanceDate)]
            = << <<2024, 1, 15>>, <<2024, 2, 15>>, <<2024, 3, 15>>, <<2024, 4, 15>> >>

\* C5: when recurrence.endDate is set, no returned instance is after it
C5_NoInstanceAfterEndDate ==
    ( /\ genResult.called
      /\ genActivity.recurrence.type # "none"
      /\ genActivity.recurrence.endDate # 0 )
    => \A i \in 1..Len(genResult.instances) :
          ~isAfter(genResult.instances[i].instanceDate, genActivity.recurrence.endDate)

\* C5 witness: a series cut short: instances up to an end date that lies
\* inside the window
C5_Witness ==
    /\ genResult.called
    /\ genActivity.recurrence.type = "daily"
    /\ genActivity.recurrence.endDate # 0
    /\ isBefore(genActivity.recurrence.endDate, genRangeEnd)
    /\ Len(genResult.instances) > 1
    /\ isSameDay(genResult.instances[Len(genResult.instances)].instanceDate,
                 genActivity.recurrence.endDate)

\* C9: for a non-recurring activity the call returns the single instance
\* dated createdAt when rangeStart <= createdAt <= rangeEnd and the activity
\* is not completed, and the empty sequence otherwise
C9_SingleInstanceIffInRange ==
    (genResult.called /\ genActivity.recurrence.type = "none")
    => /\ ~genResult.threw
       /\ genResult.instances =
            IF /\ genRangeStart <= genActivity.createdAt
               /\ genActivity.createdAt <= genRangeEnd
               /\ ~genActivity.completed
            THEN << [instanceDate |-> genActivity.createdAt,
                     masterActivityId |-> genActivity.id] >>
            ELSE <<>>

\* C10: every instance of a weekly activity falls on a weekday listed in
\* daysOfWeek, also when the start was fast-forwarded to the window
C10_WeeklyInstancesOnListedDays ==
    (genResult.called /\ genActivity.recurrence.type = "weekly")
    => \A i \in 1..Len(genResult.instances) :
          /\ genActivity.recurrence.daysOfWeek # <<>>
          /\ \E j \in 1..Len(genActivity.recurrence.daysOfWeek[1]) :
                genActivity.recurrence.daysOfWeek[1][j]
                   = getDay(genResult.instances[i].instanceDate)

\* C10 witness: Monday, Wednesday and Friday instances of a series whose
\* anchor is before the window
C10_Witness ==
    /\ genResult.called
    /\ genActivity.recurrence.type = "weekly"
    /\ genActivity.recurrence.daysOfWeek = << <<1, 3, 5>> >>
    /\ isBefore(genActivity.createdAt, genRangeStart)
    /\ { getDay(genResult.instances[i].instanceDate) : i \in 1..Len(genResult.instances) }
          = {1, 3, 5}

\* C11 as stated: for a weekly activity on Monday, Wednesday and Friday with
\* no end date and an empty ledger, consecutive returned dates are 1 or 2
\* days apart
C11_WeeklyGapsOneOrTwoDays ==
    ( /\ genResult.called
      /\ genActivity.recurrence.type = "weekly"
      /\ genActivity.recurrence.daysOfWeek = << <<1, 3, 5>> >>
      /\ genActivity.recurrence.endDate = 0
      /\ genActivity.completedOccurrences = EmptyLedger )
    => \A i \in 1..(Len(genResult.instances) - 1) :
          genResult.instances[i + 1].instanceDate - genResult.instances[i].instanceDate
             \in { SecondsPerDay, 2 * SecondsPerDay }

\* C11 amended: consecutive returned dates are 2 days apart (Monday to
\* Wednesday, Wednesday to Friday) or 3 days apart (Friday to Monday)
C11_WeeklyGapsTwoOrThreeDays ==
    ( /\ genResult.called
      /\ genActivity.recurrence.type = "weekly"
      /\ genActivity.recurrence.daysOfWeek = << <<1, 3, 5>> >>
      /\ genActivity.recurrence.endDate = 0
      /\ genActivity.completedOccurrences = EmptyLedger )
    => \A i \in 1..(Len(genResult.instances) - 1) :
          genResult.instances[i + 1].instanceDate - genResult.instances[i].instanceDate
             = IF getDay(genResult.instances[i].instanceDate) = 5
               THEN 3 * SecondsPerDay ELSE 2 * SecondsPerDay

\* C11 witness: a Friday instance followed by the Monday instance
C11_Witness ==
    /\ genResult.called
    /\ genActivity.recurrence.type = "weekly"
    /\ genActivity.recurrence.daysOfWeek = << <<1, 3, 5>> >>
    /\ genActivity.recurrence.endDate = 0
    /\ genActivity.completedOccurrences = EmptyLedger
    /\ \E i \in 1..(Len(genResult.instances) - 1) :
          /\ getDay(genResult.instances[i].instanceDate) = 5
          /\ getDay(genResult.instances[i + 1].instanceDate) = 1

\* the walk starts at rangeStartDate's month (lines 166-177) and not at createdAt
fastForwarded == isBefore(genActivity.createdAt, genRangeStart)

\* C12: every instance of a monthly activity falls on dayOfMonth; with
\* dayOfMonth 31 nothing is returned in February or on the first days of
\* March, while 31 January and 31 March inside the window are returned, from
\* the anchor as well as from a fast-forwarded rangeStartDate
C12_MonthlyOnlyOnDayOfMonth ==
    ( /\ genResult.called
      /\ ~genResult.threw
      /\ genActivity.recurrence.type = "monthly" )
    => /\ \A i \in 1..Len(genResult.instances) :
             /\ genActivity.recurrence.dayOfMonth # 0
             /\ getDate(genResult.instances[i].instanceDate)
                   = genActivity.recurrence.dayOfMonth
       /\ ( /\ genActivity.recurrence.dayOfMonth = 31
            /\ genActivity.recurrence.endDate = 0
            /\ genActivity.completedOccurrences = EmptyLedger )
          => \A m \in {1, 2, 3} :
                LET day31 == DaysFromCivil(2024, m, 31)
                    inWindow ==
                        /\ Civil(day31).m = m
                        /\ DayOf(genRangeStart) <= day31
                        /\ day31 < DayOf(genRangeEnd)
                        /\ DayOf(genActivity.createdAt) <= day31
                IN  /\ inWindow
                       => \E i \in 1..Len(genResult.instances) :
                             DayOf(genResult.instances[i].instanceDate) = day31
                    /\ \A i \in 1..Len(genResult.instances) :
                          LET c == Civil(DayOf(genResult.instances[i].instanceDate))
                          IN  ~(c.m = 2) /\ ~(c.m = 3 /\ c.d < 31)

\* C12 witness: dayOfMonth 31, walk from the anchor 2024-01-31 over the
\* year: 31 January and 31 March are returned
C12_Witness ==
    /\ genResult.called
    /\ genActivity.recurrence.type = "monthly"
    /\ genActivity.recurrence.dayOfMonth = 31
    /\ ~fastForwarded
    /\ \E i, j \in 1..Len(genResult.instances) :
          /\ formatISO(genResult.instances[i].instanceDate) = <<2024, 1, 31>>
          /\ formatISO(genResult.instances[j].instanceDate) = <<2024, 3, 31>>

\* the same from rangeStartDate 2024-02-01 with the anchor in January:
\* nothing in February, 31 March returned first
C12_WitnessFastForward ==
    /\ genResult.called
    /\ genActivity.recurrence.type = "monthly"
    /\ genActivity.recurrence.dayOfMonth = 31
    /\ fastForwarded
    /\ Len(genResult.instances) > 0
    /\ formatISO(genResult.instances[1].instanceDate) = <<2024, 3, 31>>

\* a rule no date satisfies: weekly without a listed weekday, monthly
\* without dayOfMonth
contradictoryRule(recurrence) ==
    \/ /\ recurrence.type = "weekly"
       /\ (recurrence.daysOfWeek = <<>> \/ recurrence.daysOfWeek[1] = <<>>)
    \/ /\ recurrence.type = "monthly"
       /\ recurrence.dayOfMonth = 0

\* C13: every call of the generator leaves its loop after at most 366
\* iterations (the weekly fast-forward before it takes at most 6 day steps,
\* or one step past rangeEndDate), and under a contradictory rule the call
\* returns the empty sequence without raising
C13_BoundedIterations ==
    genResult.called
    => /\ genResult.iterations <= maxIterations
       /\ genResult.fastForwardSteps <= 6
       /\ genResult.iterations = maxIterations
          \/ genResult.threw
          \/ genActivity.recurrence.type = "none"
          \/ isAfter(genResult.lastDate, genRangeEnd)
          \/ pastSeriesEnd(genActivity.recurrence, genResult.lastDate)
       /\ contradictoryRule(genActivity.recurrence)
          => ~genResult.threw /\ genResult.instances = <<>>

\* C13 witness: a contradictory rule over a window of thirteen months: the
\* loop is left by the cap, with the candidate still inside the window
C13_Witness ==
    /\ genResult.called
    /\ contradictoryRule(genActivity.recurrence)
    /\ genResult.iterations = maxIterations
    /\ ~isAfter(genResult.lastDate, genRangeEnd)
    /\ genResult.instances = <<>>

\* the date-only keys of a sequence of instances
dateKeys(instances) ==
    { formatISO(instances[i].instanceDate) : i \in 1..Len(instances) }

\* a window of the scheduler's size: one day, or eight days
schedulerWindow(rangeStartDate, rangeEndDate) ==
    /\ rangeStartDate <= rangeEndDate
    /\ rangeEndDate - rangeStartDate <= 8 * SecondsPerDay

\* a rule the fast-forward of lines 157-177 handles
fastForwardRule(recurrence) ==
    \/ recurrence.type = "daily"
    \/ /\ recurrence.type = "weekly"
       /\ recurrence.daysOfWeek # <<>>
       /\ recurrence.daysOfWeek[1] # <<>>
    \/ /\ recurrence.type = "monthly"
       /\ recurrence.dayOfMonth # 0

\* C14: with createdAt before rangeStartDate and a window of the scheduler's
\* size, a daily, weekly (listed weekdays) or monthly (dayOfMonth set) call
\* returns every valid pending day inside the window, and returns the same
\* days for every other createdAt before rangeStartDate, near or years back
C14_AnchorDistanceIrrelevant ==
    ( /\ genResult.called
      /\ fastForwardRule(genActivity.recurrence)
      /\ fastForwarded
      /\ schedulerWindow(genRangeStart, genRangeEnd) )
    => /\ \A day \in DayOf(genRangeStart)..(DayOf(genRangeEnd) - 1) :
             ( /\ isValidOccurrence(genActivity.recurrence, day * SecondsPerDay)
               /\ ~isInstanceCompleted(genActivity, formatISO(day * SecondsPerDay))
               /\ \/ genActivity.recurrence.endDate = 0
                  \/ day < DayOf(genActivity.recurrence.endDate) )
             => formatISO(day * SecondsPerDay) \in dateKeys(genResult.instances)
       /\ \A createdAt \in GenAnchors :
             isBefore(createdAt, genRangeStart)
             => dateKeys(generateFutureInstancesForNotifications(
                             [genActivity EXCEPT !.createdAt = createdAt],
                             genRangeStart, genRangeEnd))
                   = dateKeys(genResult.instances)

\* the three cases of an empty window or series
emptyCase(masterActivity, rangeStartDate, rangeEndDate) ==
    \/ rangeStartDate > rangeEndDate
    \/ masterActivity.createdAt > rangeEndDate
    \/ /\ masterActivity.recurrence.endDate # 0
       /\ masterActivity.recurrence.endDate < rangeStartDate

\* C15: when rangeStartDate is after rangeEndDate, or createdAt is after
\* rangeEndDate, or the rule's endDate is before rangeStartDate, the call
\* returns the empty sequence and raises nothing, whatever the recurrence type
C15_EmptyWithoutError ==
    ( /\ genResult.called
      /\ emptyCase(genActivity, genRangeStart, genRangeEnd) )
    => /\ ~genResult.threw
       /\ genResult.instances = <<>>

\* C16: the returned instances are strictly ascending by date, and each is
\* on a later calendar day than the one before it, so that no date and no
\* date-only key appears twice
C16_StrictlyAscending ==
    genResult.called
    => \A i \in 1..(Len(genResult.instances) - 1) :
          /\ genResult.instances[i].instanceDate < genResult.instances[i + 1].instanceDate
          /\ DayOf(genResult.instances[i].instanceDate)
                < DayOf(genResult.instances[i + 1].instanceDate)

\* C16 witness: a monthly result with at least three instances, none of
\* them at midnight
C16_Witness ==
    /\ genResult.called
    /\ genActivity.recurrence.type = "monthly"
    /\ Len(genResult.instances) >= 3
    /\ TimeOfDay(genResult.instances[1].instanceDate) # 0

(***************************************************************************)
(* Activity store (AppProvider): addActivity, updateActivity,              *)
(* deleteActivity, toggleOccurrenceCompletion, setAppMode. The history     *)
(* log, the toasts and the localStorage mirror are not modelled here.      *)
(***************************************************************************)
\* updates.recurrence === null, as the activity form sends for type none
NullRule == [type |-> "null", endDate |-> 0, daysOfWeek |-> <<>>, dayOfMonth |-> 0]

\* getRawActivities: the collection of the selected mode
getRawActivities == IF appModeState = "work" THEN workActivities ELSE personalActivities

\* the setter of the personal collection, whichever mode is selected
currentActivitySetter_AlwaysPersonal(newActivities) ==
    personalActivities' = newActivities /\ UNCHANGED workActivities

\* currentActivitySetter(prev => f(prev)) with the result already computed
currentActivitySetter(newActivities) ==
    IF appModeState = "work"
    THEN workActivities' = newActivities /\ UNCHANGED personalActivities
    ELSE personalActivities' = newActivities /\ UNCHANGED workActivities

\* the text JSON.stringify gives for recurrence.daysOfWeek
JSONstringify(daysOfWeek) ==
    IF daysOfWeek = <<>> THEN <<"undefined">> ELSE <<"[", daysOfWeek[1], "]">>

\* lines 1078-1088 without the daysOfWeek comparison
clearsCompletedOccurrences_NoDaysOfWeek(act, updates) ==
    /\ "recurrence" \in DOMAIN updates
    /\ updates.recurrence.type # "null"
    /\ \/ updates.recurrence.type = "none"
       \/ updates.recurrence.type # act.recurrence.type
       \/ updates.recurrence.dayOfMonth # act.recurrence.dayOfMonth
       \/ /\ "createdAt" \in DOMAIN updates
          /\ updates.createdAt # 0
          /\ updates.createdAt # act.createdAt

\* lines 1078-1088: whether the update empties the ledger
clearsCompletedOccurrences(act, updates) ==
    /\ "recurrence" \in DOMAIN updates
    /\ updates.recurrence.type # "null"
    /\ \/ updates.recurrence.type = "none"
       \/ updates.recurrence.type # act.recurrence.type
       \/ updates.recurrence.dayOfMonth # act.recurrence.dayOfMonth
       \/ JSONstringify(updates.recurrence.daysOfWeek)
              # JSONstringify(act.recurrence.daysOfWeek)
       \/ /\ "createdAt" \in DOMAIN updates
          /\ updates.createdAt # 0
          /\ updates.createdAt # act.createdAt

\* lines 1074-1076
updatedRecurrence(act, updates) ==
    IF "recurrence" \in DOMAIN updates /\ updates.recurrence.type = "none" THEN NoRule
    ELSE IF "recurrence" \in DOMAIN updates /\ updates.recurrence.type # "null"
         THEN updates.recurrence
    ELSE act.recurrence

\* lines 1090-1092
updatedResponsiblePersonId(act, updates) ==
    IF appModeState = "personal"
    THEN IF "responsiblePersonId" \in DOMAIN updates /\ updates.responsiblePersonId # ""
         THEN updates.responsiblePersonId
         ELSE act.responsiblePersonId
    ELSE ""

\* line 1094: { ...act, ...updates, recurrence, completedOccurrences, responsiblePersonId }
mergeActivity(act, updates) ==
    [f \in DOMAIN act \cup DOMAIN updates |->
        IF f = "recurrence" THEN updatedRecurrence(act, updates)
        ELSE IF f = "completedOccurrences"
             THEN IF clearsCompletedOccurrences(act, updates) THEN EmptyLedger
                  ELSE act.completedOccurrences
        ELSE IF f = "responsiblePersonId" THEN updatedResponsiblePersonId(act, updates)
        ELSE IF f \in DOMAIN updates THEN updates[f]
        ELSE act[f]]

\* lines 1134-1140 storing the flag under the key instead of deleting the key
toggledOccurrences_StoresState(completedOccurrences, occurrenceDateKey, completedState) ==
    [k \in DOMAIN completedOccurrences \cup {occurrenceDateKey} |->
        IF k = occurrenceDateKey THEN completedState ELSE completedOccurrences[k]]

\* lines 1134-1140 starting from an empty map instead of a copy of the ledger
toggledOccurrences_DropsOthers(completedOccurrences, occurrenceDateKey, completedState) ==
    IF completedState
    THEN [k \in {occurrenceDateKey} |-> TRUE]
    ELSE EmptyLedger

\* lines 1134-1140: the ledger after one toggle
toggledOccurrences(completedOccurrences, occurrenceDateKey, completedState) ==
    IF completedState
    THEN [k \in DOMAIN completedOccurrences \cup {occurrenceDateKey} |->
            IF k = occurrenceDateKey THEN TRUE ELSE completedOccurrences[k]]
    ELSE [k \in DOMAIN completedOccurrences \ {occurrenceDateKey} |->
            completedOccurrences[k]]

\* activities.find(act => act.id === id), as the set of matches
activitiesWithId(activities, id) ==
    { activities[i] : i \in { j \in 1..Len(activities) : activities[j].id = id } }

\* prev.filter(act => act.id !== activityId)
RECURSIVE withoutId(_, _)
withoutId(activities, id) ==
    IF activities = <<>> THEN <<>>
    ELSE IF Head(activities).id = id THEN withoutId(Tail(activities), id)
    ELSE <<Head(activities)>> \o withoutId(Tail(activities), id)

\* the ledgers of the activities of the selected mode with the given id
ledgersOf(id) ==
    { act.completedOccurrences : act \in activitiesWithId(getRawActivities, id) }

NoPair == [valid |-> FALSE, ledgers |-> {}]

\* whether two rules differ in type, dayOfMonth or daysOfWeek
shapeDiffers(r1, r2) ==
    \/ r1.type # r2.type
    \/ r1.dayOfMonth # r2.dayOfMonth
    \/ r1.daysOfWeek # r2.daysOfWeek

\* lines 382-391: the log with one more entry in front, 100 at most; the
\* uuid, the timestamp and the details of an entry are left out. A
\* specification that does not follow the log keeps it empty.
addHistoryLogEntry(actionKey, scope) ==
    historyLog' =
        IF historyFollowed
        THEN <<[actionKey |-> actionKey, scope |-> scope]>>
             \o SubSeq(historyLog, 1, IF Len(historyLog) < 99 THEN Len(historyLog) ELSE 99)
        ELSE historyLog

\* lines 1045-1058 with the incoming todo spread after the fresh fields
\* ({ id: uuidv4(), completed: false, ...todo }): an id or a completed flag
\* of the input wins
addActivity_KeepsTodoFields(activityData, customCreatedAt) ==
    /\ LET newActivity ==
               [id |-> nextUuid + 1,
                categoryId |-> activityData.categoryId,
                todos |-> [i \in 1..Len(activityData.todos) |->
                             [id |-> IF activityData.todos[i].id # 0
                                     THEN activityData.todos[i].id ELSE nextUuid + 1 + i,
                              text |-> activityData.todos[i].text,
                              completed |-> activityData.todos[i].completed]],
                createdAt |-> IF customCreatedAt # <<>> THEN customCreatedAt[1] ELSE now,
                time |-> activityData.time,
                completed |-> FALSE,
                recurrence |-> IF activityData.recurrence.type = "null" THEN NoRule
                               ELSE activityData.recurrence,
                completedOccurrences |-> EmptyLedger,
                responsiblePersonId |-> IF appModeState = "personal"
                                        THEN activityData.responsiblePersonId ELSE ""]
       IN  /\ currentActivitySetter(Append(getRawActivities, newActivity))
           /\ lastOp' = [op |-> "add", id |-> newActivity.id]
    /\ nextUuid' = nextUuid + 1 + Len(activityData.todos)
    /\ addHistoryLogEntry("historyLogAddActivity", appModeState)
    /\ UNCHANGED appModeState

\* lines 1035-1064
addActivity(activityData, customCreatedAt) ==
    /\ LET newActivity ==
               [id |-> nextUuid + 1,
                categoryId |-> activityData.categoryId,
                todos |-> [i \in 1..Len(activityData.todos) |->
                             [id |-> nextUuid + 1 + i,
                              text |-> activityData.todos[i].text,
                              completed |-> FALSE]],
                createdAt |-> IF customCreatedAt # <<>> THEN customCreatedAt[1] ELSE now,
                time |-> activityData.time,
                completed |-> FALSE,
                recurrence |-> IF activityData.recurrence.type = "null" THEN NoRule
                               ELSE activityData.recurrence,
                completedOccurrences |-> EmptyLedger,
                responsiblePersonId |-> IF appModeState = "personal"
                                        THEN activityData.responsiblePersonId ELSE ""]
       IN  /\ currentActivitySetter(Append(getRawActivities, newActivity))
           /\ lastOp' = [op |-> "add", id |-> newActivity.id]
    /\ nextUuid' = nextUuid + 1 + Len(activityData.todos)
    /\ addHistoryLogEntry("historyLogAddActivity", appModeState)
    /\ UNCHANGED appModeState

\* lines 1066-1104; lastOp keeps what the call met: whether the stored
\* activity was recurring and had ledger keys, whether the incoming rule has
\* another shape, whether the incoming createdAt is another date
updateActivity(activityId, updates) ==
    /\ LET merge(act) == IF act.id = activityId THEN mergeActivity(act, updates) ELSE act
       IN  currentActivitySetter([i \in 1..Len(getRawActivities) |->
                                     merge(getRawActivities[i])])
    /\ LET before == activitiesWithId(getRawActivities, activityId)
       IN  lastOp' =
             [op |-> "update", id |-> activityId, fields |-> DOMAIN updates,
              wasRecurring |-> \E a \in before : a.recurrence.type # "none",
              hadKeys |-> \E a \in before : DOMAIN a.completedOccurrences # {},
              newShape |-> /\ "recurrence" \in DOMAIN updates
                           /\ updates.recurrence.type # "null"
                           /\ \E a \in before : shapeDiffers(a.recurrence, updates.recurrence),
              newDate |-> /\ "createdAt" \in DOMAIN updates
                          /\ \E a \in before : a.createdAt # updates.createdAt]
    /\ addHistoryLogEntry("historyLogUpdateActivity", appModeState)
    /\ UNCHANGED <<appModeState, nextUuid>>

\* lines 1106-1120
deleteActivity(activityId) ==
    /\ currentActivitySetter(withoutId(getRawActivities, activityId))
    /\ lastOp' = [op |-> "delete", id |-> activityId]
    /\ addHistoryLogEntry("historyLogDeleteActivity", appModeState)
    /\ UNCHANGED <<appModeState, nextUuid>>

\* lines 1122-1150 with the completed flag of the activity set as well
\* ({ ...act, completed: completedState, completedOccurrences })
toggleOccurrenceCompletion_SetsCompleted(masterActivityId, occurrenceDateTimestamp, completedState) ==
    /\ LET occurrenceDateKey == formatISO(occurrenceDateTimestamp)
           toggle(act) ==
               IF act.id = masterActivityId
               THEN [act EXCEPT !.completedOccurrences =
                        toggledOccurrences(@, occurrenceDateKey, completedState),
                                !.completed = completedState]
               ELSE act
       IN  /\ currentActivitySetter([i \in 1..Len(getRawActivities) |->
                                        toggle(getRawActivities[i])])
           /\ lastOp' =
                [op |-> "toggle", id |-> masterActivityId, key |-> occurrenceDateKey,
                 completed |-> completedState,
                 ledgers |-> IF completedState THEN ledgersOf(masterActivityId) ELSE {},
                 pair |->
                    IF /\ lastOp.op = "toggle"
                       /\ lastOp.id = masterActivityId
                       /\ lastOp.key = occurrenceDateKey
                       /\ lastOp.completed
                       /\ ~completedState
                    THEN [valid |-> TRUE, ledgers |-> lastOp.ledgers]
                    ELSE NoPair]
    /\ addHistoryLogEntry("historyLogToggleActivityCompletion", appModeState)
    /\ UNCHANGED <<appModeState, nextUuid>>

\* lines 1122-1150; lastOp keeps the ledger a completing call met and, when
\* the call un-completes what the call just before it completed, the ledger
\* before the two
toggleOccurrenceCompletion(masterActivityId, occurrenceDateTimestamp, completedState) ==
    /\ LET occurrenceDateKey == formatISO(occurrenceDateTimestamp)
           toggle(act) ==
               IF act.id = masterActivityId
               THEN [act EXCEPT !.completedOccurrences =
                        toggledOccurrences(@, occurrenceDateKey, completedState)]
               ELSE act
       IN  /\ currentActivitySetter([i \in 1..Len(getRawActivities) |->
                                        toggle(getRawActivities[i])])
           /\ lastOp' =
                [op |-> "toggle", id |-> masterActivityId, key |-> occurrenceDateKey,
                 completed |-> completedState,
                 ledgers |-> IF completedState THEN ledgersOf(masterActivityId) ELSE {},
                 pair |->
                    IF /\ lastOp.op = "toggle"
                       /\ lastOp.id = masterActivityId
                       /\ lastOp.key = occurrenceDateKey
                       /\ lastOp.completed
                       /\ ~completedState
                    THEN [valid |-> TRUE, ledgers |-> lastOp.ledgers]
                    ELSE NoPair]
    /\ addHistoryLogEntry("historyLogToggleActivityCompletion", appModeState)
    /\ UNCHANGED <<appModeState, nextUuid>>

\* lines 989-994
setAppMode(mode) ==
    /\ IF mode # appModeState
       THEN addHistoryLogEntry("historyLogSwitchMode", "account")
       ELSE UNCHANGED historyLog
    /\ appModeState' = mode
    /\ lastOp' = [op |-> "mode"]
    /\ UNCHANGED <<personalActivities, workActivities, nextUuid>>

\* lines 1153-1160; a todo is { id, text, completed }
addTodoToActivity(activityId, todoText) ==
    /\ LET newTodo == [id |-> nextUuid + 1, text |-> todoText, completed |-> FALSE]
           add(act) == IF act.id = activityId
                       THEN [act EXCEPT !.todos = Append(@, newTodo)] ELSE act
       IN  currentActivitySetter([i \in 1..Len(getRawActivities) |->
                                     add(getRawActivities[i])])
    /\ nextUuid' = nextUuid + 1
    /\ lastOp' = [op |-> "addTodo"]
    /\ UNCHANGED <<appModeState, historyLog>>

\* lines 1162-1178: { ...todo, ...updates } on the todos with the id
updateTodoInActivity(activityId, todoId, updates) ==
    /\ LET mergeTodo(todo) ==
               IF todo.id = todoId
               THEN [f \in DOMAIN todo |-> IF f \in DOMAIN updates THEN updates[f] ELSE todo[f]]
               ELSE todo
           update(act) ==
               IF act.id = activityId
               THEN [act EXCEPT !.todos = [k \in 1..Len(@) |-> mergeTodo(@[k])]]
               ELSE act
       IN  currentActivitySetter([i \in 1..Len(getRawActivities) |->
                                     update(getRawActivities[i])])
    /\ lastOp' = [op |-> "updateTodo"]
    /\ UNCHANGED <<appModeState, nextUuid, historyLog>>

\* lines 1180-1188
deleteTodoFromActivity(activityId, todoId) ==
    /\ LET delete(act) ==
               IF act.id = activityId
               THEN [act EXCEPT !.todos = withoutId(@, todoId)] ELSE act
       IN  currentActivitySetter([i \in 1..Len(getRawActivities) |->
                                     delete(getRawActivities[i])])
    /\ lastOp' = [op |-> "deleteTodo"]
    /\ UNCHANGED <<appModeState, nextUuid, historyLog>>

\* the categoryId of the activities that carry this one cleared (lines
\* 1269-1271 and 1274-1276)
clearCategoryFromActivities(activities, categoryId) ==
    [i \in 1..Len(activities) |->
        IF activities[i].categoryId = categoryId
        THEN [activities[i] EXCEPT !.categoryId = ""] ELSE activities[i]]

\* lines 1317-1320; "" stands for undefined
clearAssigneeFromActivities(activities, assigneeId) ==
    [i \in 1..Len(activities) |->
        IF activities[i].responsiblePersonId = assigneeId
        THEN [activities[i] EXCEPT !.responsiblePersonId = ""] ELSE activities[i]]

\* lines 1218-1257: name and mode replaced by the ones of the updates; the
\* toast is not modelled and the log entry is written in every case
updateCategory(categoryId, updates) ==
    /\ allCategories' =
          [i \in 1..Len(allCategories) |->
              IF allCategories[i].id = categoryId
              THEN [f \in DOMAIN allCategories[i] |->
                       IF f \in DOMAIN updates \ {"id"} THEN updates[f]
                       ELSE allCategories[i][f]]
              ELSE allCategories[i]]
    /\ addHistoryLogEntry("historyLogUpdateCategory", "category")
    /\ UNCHANGED <<personalActivities, workActivities, appModeState, nextUuid, lastOp,
                   allAssignees>>

\* lines 1260-1280 with the work collection left as it is
deleteCategory_PersonalOnly(categoryId) ==
    IF \A i \in 1..Len(allCategories) : allCategories[i].id # categoryId
    THEN UNCHANGED <<storeVars, allCategories, allAssignees>>
    ELSE /\ addHistoryLogEntry("historyLogDeleteCategory", "category")
         /\ allCategories' = withoutId(allCategories, categoryId)
         /\ personalActivities' = clearCategoryFromActivities(personalActivities, categoryId)
         /\ UNCHANGED <<workActivities, appModeState, nextUuid, lastOp, allAssignees>>

\* lines 1260-1280: nothing happens for an id that is not a category's
deleteCategory(categoryId) ==
    IF \A i \in 1..Len(allCategories) : allCategories[i].id # categoryId
    THEN UNCHANGED <<storeVars, allCategories, allAssignees>>
    ELSE /\ addHistoryLogEntry("historyLogDeleteCategory", "category")
         /\ allCategories' = withoutId(allCategories, categoryId)
         /\ personalActivities' = clearCategoryFromActivities(personalActivities, categoryId)
         /\ workActivities' = clearCategoryFromActivities(workActivities, categoryId)
         /\ UNCHANGED <<appModeState, nextUuid, lastOp, allAssignees>>

\* lines 1290-1309: the log entry is written in every case
updateAssignee(assigneeId, updates) ==
    /\ allAssignees' =
          [i \in 1..Len(allAssignees) |->
              IF allAssignees[i].id = assigneeId /\ "name" \in DOMAIN updates
              THEN [allAssignees[i] EXCEPT !.name = updates.name]
              ELSE allAssignees[i]]
    /\ addHistoryLogEntry("historyLogUpdateAssignee", "assignee")
    /\ UNCHANGED <<personalActivities, workActivities, appModeState, nextUuid, lastOp,
                   allCategories>>

\* lines 1311-1325: nothing happens for an id that is not an assignee's;
\* only the personal collection is cleared of the id (line 1321)
deleteAssignee(assigneeId) ==
    IF \A i \in 1..Len(allAssignees) : allAssignees[i].id # assigneeId
    THEN UNCHANGED <<storeVars, allCategories, allAssignees>>
    ELSE /\ allAssignees' = withoutId(allAssignees, assigneeId)
         /\ personalActivities' = clearAssigneeFromActivities(personalActivities, assigneeId)
         /\ addHistoryLogEntry("historyLogDeleteAssignee", "assignee")
         /\ UNCHANGED <<workActivities, appModeState, nextUuid, lastOp, allCategories>>

\* activity-list-item.tsx lines 46-50 without the map of line 49: the todos
\* go back as they are
updatedTodos_Untouched(activity, completedValue) == activity.todos

\* activity-list-item.tsx lines 46-50: every todo completed when the
\* activity is marked complete, the todos as they are otherwise
updatedTodos(activity, completedValue) ==
    IF completedValue /\ Len(activity.todos) > 0
    THEN [k \in 1..Len(activity.todos) |-> [activity.todos[k] EXCEPT !.completed = TRUE]]
    ELSE activity.todos

\* activity-list-item.tsx lines 39-56, for the list item of the stored
\* activity: an occurrence of a recurring activity is toggled in the ledger,
\* a non-recurring activity is updated with the flag and the todos
handleActivityCompletedChange(activity, originalInstanceDate, completedValue) ==
    IF activity.recurrence.type # "none"
    THEN toggleOccurrenceCompletion(activity.id, originalInstanceDate, completedValue)
    ELSE updateActivity(activity.id,
                        [completed |-> completedValue,
                         todos |-> updatedTodos(activity, completedValue)])

(***************************************************************************)
(* Specification SpecStore: the store operations called with payloads of   *)
(* the activity form, of the list item checkbox and of direct callers.     *)
(***************************************************************************)
StoreAnchors == { TS(2024, 3, 4, 9, 0), TS(2024, 3, 6, 9, 0) }

\* rules the activity form builds (onSubmit, lines 164-169); null for type
\* none; the weekdays are in the order their boxes were checked (lines 393-400)
FormRules ==
    { NullRule,
      Rule("weekly", 0, << <<1, 3>> >>, 0),
      Rule("weekly", 0, << <<3, 1>> >>, 0),
      Rule("weekly", 0, << <<3>> >>, 0),
      Rule("monthly", 0, <<>>, 4),
      Rule("monthly", 0, <<>>, 6) }

\* activityPayload of onSubmit (lines 171-185); the ledger it carries is the
\* copy the form was opened with
FormPayloads ==
    { [categoryId |-> "c1", todos |-> <<>>, createdAt |-> c, time |-> <<9, 0>>,
       recurrence |-> r, completedOccurrences |-> Ledger({<<2024, 3, 4>>}),
       responsiblePersonId |-> ""] : c \in StoreAnchors, r \in FormRules }

\* Partial<Activity> objects of other callers: the checkbox of a non-recurring
\* activity when it is unchecked (activity-list-item.tsx line 54), a new date
\* alone, an explicit rule of type none
PartialUpdates ==
    { [completed |-> FALSE, todos |-> <<>>] }
    \cup { [createdAt |-> c] : c \in StoreAnchors }
    \cup { [recurrence |-> NoRule] }

StoreUpdates == FormPayloads \cup PartialUpdates

\* originalInstanceDate of the instance whose checkbox is clicked
ToggleDates == { TS(2024, 3, 4, 9, 0) }

ActivityIds == 1..MaxUuid

InitStore ==
    /\ InitStoreIdle
    /\ InitSchedIdle
    /\ InitShellIdle
    /\ dateFnsMajor = 3
    /\ genActivity = Activity(1, 0, <<>>, NoRule, FALSE, EmptyLedger)
    /\ genRangeStart = 0
    /\ genRangeEnd = 0
    /\ genResult = NotCalled

StoreAdd ==
    /\ nextUuid < MaxUuid
    /\ \E p \in FormPayloads : addActivity(p, <<p.createdAt>>)
    /\ UNCHANGED <<genVars, schedVars, shellVars>>

StoreUpdate ==
    /\ \E id \in ActivityIds, u \in StoreUpdates : updateActivity(id, u)
    /\ UNCHANGED <<genVars, schedVars, shellVars>>

StoreDelete ==
    /\ \E id \in ActivityIds : deleteActivity(id)
    /\ UNCHANGED <<genVars, schedVars, shellVars>>

StoreToggle ==
    /\ \E id \in ActivityIds, d \in ToggleDates, c \in BOOLEAN :
          toggleOccurrenceCompletion(id, d, c)
    /\ UNCHANGED <<genVars, schedVars, shellVars>>

StoreSetAppMode ==
    /\ \E mode \in {"personal", "work"} : setAppMode(mode)
    /\ UNCHANGED <<genVars, schedVars, shellVars>>

NextStore ==
    \/ StoreAdd
    \/ StoreUpdate
    \/ StoreDelete
    \/ StoreToggle
    \/ StoreSetAppMode

SpecStore == InitStore /\ [][NextStore]_vars

(***************************************************************************)
(* Claims on the store (SpecStore; lastTargets also serves SpecLedger)     *)
(***************************************************************************)
allStored ==
    { personalActivities[i] : i \in 1..Len(personalActivities) }
    \cup { workActivities[i] : i \in 1..Len(workActivities) }

\* the activities of the selected mode the last operation addressed
lastTargets == activitiesWithId(getRawActivities, lastOp.id)

\* C2: an updateActivity on a stored recurring activity whose incoming rule
\* differs from the stored one in type, dayOfMonth or daysOfWeek leaves the
\* activity, in the state the update produces, with an empty ledger
C2_ShapeChangeClearsLedger ==
    (lastOp.op = "update" /\ lastOp.wasRecurring /\ lastOp.newShape)
        => \A act \in lastTargets : act.completedOccurrences = EmptyLedger

\* C2 witness: such an update has met a ledger with keys and emptied it
C2_Witness ==
    /\ lastOp.op = "update" /\ lastOp.wasRecurring /\ lastOp.newShape /\ lastOp.hadKeys
    /\ \E act \in lastTargets :
          act.recurrence.type = "weekly" /\ act.completedOccurrences = EmptyLedger

\* C3: an updateActivity that changes the createdAt of a recurring activity
\* leaves its ledger empty, with or without a recurrence field in the update
C3_AnchorChangeClearsLedger ==
    (lastOp.op = "update" /\ lastOp.wasRecurring /\ lastOp.newDate)
        => \A act \in lastTargets : act.completedOccurrences = EmptyLedger

\* C7: every value stored in a ledger is true; after a toggle with completed
\* = true the key is stored as true, after one with completed = false the
\* key is absent
C7_LedgerHoldsOnlyTrue ==
    /\ \A act \in allStored :
          \A k \in DOMAIN act.completedOccurrences : act.completedOccurrences[k] = TRUE
    /\ lastOp.op = "toggle" =>
          \A act \in lastTargets :
             IF lastOp.completed
             THEN /\ lastOp.key \in DOMAIN act.completedOccurrences
                  /\ act.completedOccurrences[lastOp.key] = TRUE
             ELSE lastOp.key \notin DOMAIN act.completedOccurrences

\* C7 witness: an un-complete has removed a key that a toggle to true had
\* stored in the ledger of a recurring activity
C7_Witness ==
    /\ lastOp.op = "toggle" /\ ~lastOp.completed
    /\ lastOp.pair.valid
    /\ \E act \in lastTargets :
          /\ act.recurrence.type # "none"
          /\ lastOp.key \notin DOMAIN act.completedOccurrences

(***************************************************************************)
(* Specification SpecLedger: activities are added, their occurrences are   *)
(* toggled, and the generator is called on the stored activities.          *)
(* genResult holds the result of the last call made since the last store   *)
(* operation.                                                              *)
(***************************************************************************)
LedgerAnchor == TS(2024, 3, 4, 9, 0)

LedgerRules ==
    { NullRule,
      Rule("daily", TS(2024, 3, 8, 0, 0), <<>>, 0),
      Rule("weekly", 0, << <<1, 3>> >>, 0) }

LedgerPayloads ==
    { [categoryId |-> "c1", todos |-> <<>>, createdAt |-> LedgerAnchor, time |-> <<9, 0>>,
       recurrence |-> r, responsiblePersonId |-> ""] : r \in LedgerRules }

\* the week after the anchor and the month around it
LedgerWindows ==
    { <<TS(2024, 3, 5, 0, 0), TS(2024, 3, 12, 0, 0)>>,
      <<TS(2024, 3, 1, 0, 0), TS(2024, 3, 31, 0, 0)>> }

\* occurrence dates whose checkbox is clicked: the anchor and a Wednesday
LedgerToggleDates == { TS(2024, 3, 4, 9, 0), TS(2024, 3, 6, 0, 0) }

InitLedger == InitStore

LedgerAdd ==
    /\ nextUuid < MaxUuid
    /\ \E p \in LedgerPayloads : addActivity(p, <<p.createdAt>>)
    /\ genResult' = NotCalled
    /\ UNCHANGED <<dateFnsMajor, genActivity, genRangeStart, genRangeEnd, schedVars, shellVars>>

LedgerToggle ==
    /\ \E id \in ActivityIds, d \in LedgerToggleDates, c \in BOOLEAN :
          toggleOccurrenceCompletion(id, d, c)
    /\ genResult' = NotCalled
    /\ UNCHANGED <<dateFnsMajor, genActivity, genRangeStart, genRangeEnd, schedVars, shellVars>>

\* one call of the generator on a stored activity of the selected mode
LedgerGenerate ==
    /\ \E i \in 1..Len(getRawActivities), w \in LedgerWindows :
          /\ genActivity' = getRawActivities[i]
          /\ genRangeStart' = w[1]
          /\ genRangeEnd' = w[2]
          /\ genResult' = Returned(getRawActivities[i], w[1], w[2])
    /\ UNCHANGED <<dateFnsMajor, storeVars, schedVars, shellVars>>

NextLedger ==
    \/ LedgerAdd
    \/ LedgerToggle
    \/ LedgerGenerate

SpecLedger == InitLedger /\ [][NextLedger]_vars

\* C8 as stated: completing an occurrence and then un-completing it leaves
\* the ledger exactly as it was before the two calls
C8_RoundTripRestoresLedger ==
    (lastOp.op = "toggle" /\ lastOp.pair.valid)
        => \A act \in lastTargets : act.completedOccurrences \in lastOp.pair.ledgers

\* C8 amended: the two calls restore the ledger when the key was absent
\* before them; when it was present they leave the ledger without that key
C8_RoundTripRemovesKey ==
    (lastOp.op = "toggle" /\ lastOp.pair.valid)
        => \A act \in lastTargets : \A l \in lastOp.pair.ledgers :
              /\ lastOp.key \notin DOMAIN l => act.completedOccurrences = l
              /\ act.completedOccurrences =
                    [k \in DOMAIN l \ {lastOp.key} |-> l[k]]

\* C8 witness: the round trip has run on a ledger that held another key
C8_Witness ==
    /\ lastOp.op = "toggle" /\ lastOp.pair.valid
    /\ \E l \in lastOp.pair.ledgers : lastOp.key \notin DOMAIN l /\ DOMAIN l # {}
    /\ lastTargets # {}

\* C6 as stated: a generation that follows toggleOccurrenceCompletion(id, d,
\* true) holds no instance of that activity with the date key of d, and one
\* that follows a toggle to false of a key completed just before holds the
\* instance again when the key is a date of the series inside the window
C6_GenerationFollowsToggle ==
    ( /\ genResult.called
      /\ lastOp.op = "toggle"
      /\ lastOp.id = genActivity.id )
    => IF lastOp.completed
       THEN \A i \in 1..Len(genResult.instances) :
               formatISO(genResult.instances[i].instanceDate) # lastOp.key
       ELSE \A inst \in { generateFutureInstancesForNotifications(
                              [genActivity EXCEPT !.completedOccurrences = EmptyLedger],
                              genRangeStart, genRangeEnd)[j] :
                          j \in 1..Len(generateFutureInstancesForNotifications(
                              [genActivity EXCEPT !.completedOccurrences = EmptyLedger],
                              genRangeStart, genRangeEnd)) } :
               formatISO(inst.instanceDate) = lastOp.key
                  => \E i \in 1..Len(genResult.instances) : genResult.instances[i] = inst

\* C6 amended: for a recurring activity the generation is the series without
\* its ledger, less the instances whose date key is in the ledger at the
\* time of the call; so after a toggle to true the instance with that key is
\* left out and every other pending one stays, and after a toggle to false
\* it is back
C6_RecurringGenerationReflectsLedger ==
    ( /\ genResult.called
      /\ genActivity.recurrence.type # "none" )
    => LET all == generateFutureInstancesForNotifications(
                     [genActivity EXCEPT !.completedOccurrences = EmptyLedger],
                     genRangeStart, genRangeEnd)
           pending(inst) ==
               formatISO(inst.instanceDate) \notin DOMAIN genActivity.completedOccurrences
       IN  /\ genActivity \in activitiesWithId(getRawActivities, genActivity.id)
           /\ genResult.instances = SelectSeq(all, pending)
           /\ ( lastOp.op = "toggle" /\ lastOp.id = genActivity.id ) =>
                 IF lastOp.completed
                 THEN lastOp.key \in DOMAIN genActivity.completedOccurrences
                 ELSE lastOp.key \notin DOMAIN genActivity.completedOccurrences

\* C6 witness: a generation after a toggle to true that leaves the toggled
\* occurrence out and returns the others
C6_Witness ==
    /\ genResult.called
    /\ genActivity.recurrence.type = "weekly"
    /\ lastOp.op = "toggle" /\ lastOp.id = genActivity.id /\ lastOp.completed
    /\ lastOp.key = <<2024, 3, 6>>
    /\ genRangeStart = TS(2024, 3, 5, 0, 0)
    /\ [i \in 1..Len(genResult.instances) |-> formatISO(genResult.instances[i].instanceDate)]
          = << <<2024, 3, 11>> >>

(***************************************************************************)
(* Notification scheduler (AppProvider, the interval effect of lines       *)
(* 696-793) and the in-app notification list. The effect is subscribed     *)
(* again after every state change it depends on, so a tick reads the       *)
(* state as the previous event left it. Toasts are not modelled; system    *)
(* notifications are counted; the uuid of a list entry is the number of    *)
(* uuids drawn for the list when it was added.                             *)
(***************************************************************************)
\* addUINotification keeping 50 earlier entries instead of 49
addUINotification_KeepFifty(list, data, uuid) ==
    <<[id |-> uuid, title |-> data.title, activityId |-> data.activityId,
       instanceDate |-> data.instanceDate, timestamp |-> data.timestamp,
       read |-> FALSE]>>
    \o SubSeq(list, 1, IF Len(list) < 50 THEN Len(list) ELSE 50)

\* lines 393-401: the list with one more entry in front, 50 at most
addUINotification(list, data, uuid) ==
    <<[id |-> uuid, title |-> data.title, activityId |-> data.activityId,
       instanceDate |-> data.instanceDate, timestamp |-> data.timestamp,
       read |-> FALSE]>>
    \o SubSeq(list, 1, IF Len(list) < 49 THEN Len(list) ELSE 49)

\* the concatenation of the first n of a sequence of sequences
RECURSIVE flatten(_, _)
flatten(seqs, n) == IF n = 0 THEN <<>> ELSE flatten(seqs, n - 1) \o seqs[n]

\* lines 725-727: the instant of the occurrence at the activity's time
activityDateTime(instanceDate, time) ==
    dateFnsStartOfDay(instanceDate) + (time[1] * 60 * 60) + (time[2] * 60)

\* one emitted notification: its dedup key and what addUINotification gets
Notice(masterActivity, instance, typeKey, titleKey, tickNow) ==
    [key |-> <<masterActivity.id, formatISO(instance.instanceDate), typeKey>>,
     title |-> titleKey, activityId |-> masterActivity.id,
     instanceDate |-> instance.instanceDate, timestamp |-> tickNow]

\* lines 717-742 without the test timeDiffMs >= 0: an occurrence that has
\* started is notified as well
fiveMinuteNotices_AlreadyStarted(masterActivity, tickNow, today, notified) ==
    IF masterActivity.time = <<>> THEN <<>>
    ELSE LET one(instance) ==
                 LET occurrenceDateKey == formatISO(instance.instanceDate)
                     timeDiff == activityDateTime(instance.instanceDate,
                                                  masterActivity.time) - tickNow
                 IN  IF /\ ~isInstanceCompleted(masterActivity, occurrenceDateKey)
                        /\ <<masterActivity.id, occurrenceDateKey, "5min_soon">>
                              \notin notified
                        /\ timeDiff <= 5 * 60
                     THEN <<Notice(masterActivity, instance, "5min_soon",
                                   "toastActivityStartingSoonTitle", tickNow)>>
                     ELSE <<>>
         IN  CHOOSE notices \in
                 { flatten([i \in 1..Len(todayInstances) |-> one(todayInstances[i])],
                           Len(todayInstances)) :
                   todayInstances \in
                       { generateFutureInstancesForNotifications(
                             masterActivity, today, dateFnsEndOfDay(today)) } } : TRUE

\* lines 717-742: the "starting soon" notifications of one activity
fiveMinuteNotices(masterActivity, tickNow, today, notified) ==
    IF masterActivity.time = <<>> THEN <<>>
    ELSE LET one(instance) ==
                 LET occurrenceDateKey == formatISO(instance.instanceDate)
                     timeDiff == activityDateTime(instance.instanceDate,
                                                  masterActivity.time) - tickNow
                 IN  IF /\ ~isInstanceCompleted(masterActivity, occurrenceDateKey)
                        /\ <<masterActivity.id, occurrenceDateKey, "5min_soon">>
                              \notin notified
                        /\ timeDiff >= 0
                        /\ timeDiff <= 5 * 60
                     THEN <<Notice(masterActivity, instance, "5min_soon",
                                   "toastActivityStartingSoonTitle", tickNow)>>
                     ELSE <<>>
         IN  CHOOSE notices \in
                 { flatten([i \in 1..Len(todayInstances) |-> one(todayInstances[i])],
                           Len(todayInstances)) :
                   todayInstances \in
                       { generateFutureInstancesForNotifications(
                             masterActivity, today, dateFnsEndOfDay(today)) } } : TRUE

\* lines 753-766: notify(typeKey, ...) for one upcoming instance
notify(masterActivity, instance, typeKey, titleKey, tickNow, notified) ==
    IF <<masterActivity.id, formatISO(instance.instanceDate), typeKey>> \notin notified
    THEN <<Notice(masterActivity, instance, typeKey, titleKey, tickNow)>>
    ELSE <<>>

\* lines 745-788 with the weekly case comparing today with
\* twoDaysBeforeInstance
upcomingNotices_WeeklyTwoDays(masterActivity, tickNow, today, notified) ==
    IF masterActivity.recurrence.type = "none" THEN <<>>
    ELSE LET recurrenceType == masterActivity.recurrence.type
             one(instance) ==
                 LET oneDayBeforeInstance ==
                         dateFnsStartOfDay(subDays(instance.instanceDate, 1))
                     twoDaysBeforeInstance ==
                         dateFnsStartOfDay(subDays(instance.instanceDate, 2))
                     oneWeekBeforeInstance ==
                         dateFnsStartOfDay(subWeeks(instance.instanceDate, 1))
                 IN  IF isInstanceCompleted(masterActivity,
                                            formatISO(instance.instanceDate))
                     THEN <<>>
                     ELSE IF recurrenceType = "weekly"
                     THEN IF isSameDay(today, twoDaysBeforeInstance)
                          THEN notify(masterActivity, instance, "1day_weekly",
                                      "toastActivityTomorrowTitle", tickNow, notified)
                          ELSE <<>>
                     ELSE IF recurrenceType = "monthly"
                     THEN (IF isSameDay(today, oneWeekBeforeInstance)
                           THEN notify(masterActivity, instance, "1week_monthly",
                                       "toastActivityInOneWeekTitle", tickNow, notified)
                           ELSE <<>>)
                          \o (IF isSameDay(today, twoDaysBeforeInstance)
                              THEN notify(masterActivity, instance, "2days_monthly",
                                          "toastActivityInTwoDaysTitle", tickNow, notified)
                              ELSE <<>>)
                          \o (IF isSameDay(today, oneDayBeforeInstance)
                              THEN notify(masterActivity, instance, "1day_monthly",
                                          "toastActivityTomorrowTitle", tickNow, notified)
                              ELSE <<>>)
                     ELSE <<>>
         IN  CHOOSE notices \in
                 { flatten([i \in 1..Len(upcomingInstances) |->
                               one(upcomingInstances[i])],
                           Len(upcomingInstances)) :
                   upcomingInstances \in
                       { generateFutureInstancesForNotifications(
                             masterActivity, addDays(today, 1), addDays(today, 8)) } } : TRUE

\* lines 745-788: the advance notifications of one activity
upcomingNotices(masterActivity, tickNow, today, notified) ==
    IF masterActivity.recurrence.type = "none" THEN <<>>
    ELSE LET recurrenceType == masterActivity.recurrence.type
             one(instance) ==
                 LET oneDayBeforeInstance ==
                         dateFnsStartOfDay(subDays(instance.instanceDate, 1))
                     twoDaysBeforeInstance ==
                         dateFnsStartOfDay(subDays(instance.instanceDate, 2))
                     oneWeekBeforeInstance ==
                         dateFnsStartOfDay(subWeeks(instance.instanceDate, 1))
                 IN  IF isInstanceCompleted(masterActivity,
                                            formatISO(instance.instanceDate))
                     THEN <<>>
                     ELSE IF recurrenceType = "weekly"
                     THEN IF isSameDay(today, oneDayBeforeInstance)
                          THEN notify(masterActivity, instance, "1day_weekly",
                                      "toastActivityTomorrowTitle", tickNow, notified)
                          ELSE <<>>
                     ELSE IF recurrenceType = "monthly"
                     THEN (IF isSameDay(today, oneWeekBeforeInstance)
                           THEN notify(masterActivity, instance, "1week_monthly",
                                       "toastActivityInOneWeekTitle", tickNow, notified)
                           ELSE <<>>)
                          \o (IF isSameDay(today, twoDaysBeforeInstance)
                              THEN notify(masterActivity, instance, "2days_monthly",
                                          "toastActivityInTwoDaysTitle", tickNow, notified)
                              ELSE <<>>)
                          \o (IF isSameDay(today, oneDayBeforeInstance)
                              THEN notify(masterActivity, instance, "1day_monthly",
                                          "toastActivityTomorrowTitle", tickNow, notified)
                              ELSE <<>>)
                     ELSE <<>>
         IN  CHOOSE notices \in
                 { flatten([i \in 1..Len(upcomingInstances) |->
                               one(upcomingInstances[i])],
                           Len(upcomingInstances)) :
                   upcomingInstances \in
                       { generateFutureInstancesForNotifications(
                             masterActivity, addDays(today, 1), addDays(today, 8)) } } : TRUE

\* lines 712-789: activitiesToScan.forEach, the notifications in emission order
tickNotices(activitiesToScan, tickNow, today, notified) ==
    flatten([i \in 1..Len(activitiesToScan) |->
                fiveMinuteNotices(activitiesToScan[i], tickNow, today, notified)
                \o upcomingNotices(activitiesToScan[i], tickNow, today, notified)],
            Len(activitiesToScan))

\* the list after addUINotification was called for each notice in turn
RECURSIVE addUINotifications(_, _, _)
addUINotifications(list, notices, uuids) ==
    IF notices = <<>> THEN list
    ELSE addUINotifications(addUINotification(list, Head(notices), uuids + 1),
                            Tail(notices), uuids + 1)

\* lines 704-706: the day of the month differs from the one of the last tick
dayRolledOver(tickNow) ==
    lastNotificationCheckDay # 0 /\ lastNotificationCheckDay # getDate(tickNow)

\* lines 705, 738 and 764 with no key ever added to the set
notifiedAfterTick_KeepsNothing(tickNow, notices) ==
    IF dayRolledOver(tickNow) THEN {} ELSE notifiedToday

\* lines 705, 738 and 764 with the reset applied after the adds: the keys
\* of the rollover tick are dropped with the others
notifiedAfterTick_ResetLast(tickNow, notices) ==
    IF dayRolledOver(tickNow) THEN {}
    ELSE notifiedToday \cup { notices[i].key : i \in 1..Len(notices) }

\* lines 705, 738 and 764: the queued setNotifiedToday updates applied in
\* order: the reset when the day rolled over, then one add per notice
notifiedAfterTick(tickNow, notices) ==
    (IF dayRolledOver(tickNow) THEN {} ELSE notifiedToday)
    \cup { notices[i].key : i \in 1..Len(notices) }

\* the bag of <<key, calendar day of the tick>> of the notices
RECURSIVE emittedBy(_, _)
emittedBy(notices, today) ==
    IF notices = <<>> THEN EmptyBag
    ELSE SetToBag({<<Head(notices).key, formatISO(today)>>})
         (+) emittedBy(Tail(notices), today)

\* lines 403-427 with the try/catch of lines 415-423 removed: the error of
\* new Notification(...) leaves the function
showSystemNotification_Uncaught(title) ==
    [shown |-> notificationPermission = "granted" /\ ~notificationThrows,
     threw |-> notificationPermission = "granted" /\ notificationThrows]

\* lines 403-427: whether the system notification is shown and whether an
\* error leaves the function. Without the Notification API the function
\* returns (405-408); the constructor is called only when the permission is
\* 'granted' (413), and its error is caught and logged (421-423).
showSystemNotification(title) ==
    [shown |-> notificationPermission = "granted" /\ ~notificationThrows,
     threw |-> FALSE]

\* lines 735-738 and 761-764: an error leaving showSystemNotification ends
\* the callback before addUINotification, toast and setNotifiedToday; the
\* browser's answer is the same for every notice of one tick
noticesAttempted(notices) ==
    IF notices # <<>> /\ showSystemNotification(notices[1].title).threw
    THEN <<notices[1]>> ELSE notices

noticesDelivered(notices) ==
    IF notices # <<>> /\ showSystemNotification(notices[1].title).threw
    THEN <<>> ELSE notices

noticesShown(notices) ==
    IF notices # <<>> /\ showSystemNotification(notices[1].title).shown
    THEN Len(notices) ELSE 0

\* one run of the interval callback at the instant tickNow (lines 699-790)
Tick(tickNow) ==
    LET today == getStartOfDayUtil(tickNow)
        activitiesToScan == getRawActivities
    IN  \E notices \in {tickNotices(activitiesToScan, tickNow, today, notifiedToday)} :
        \E delivered \in {noticesDelivered(notices)} :
           /\ now' = tickNow
           /\ notifiedToday' = notifiedAfterTick(tickNow, delivered)
           /\ lastNotificationCheckDay' = getDate(tickNow)
           /\ systemNotifications' = systemNotifications + noticesShown(notices)
           /\ uiNotifications' = addUINotifications(uiNotifications, delivered,
                                                    notificationUuids)
           /\ notificationUuids' = notificationUuids + Len(delivered)
           /\ emitted' = emitted (+) emittedBy(noticesAttempted(notices), today)

(***************************************************************************)
(* Specification SpecSched: a loaded, authenticated session in which       *)
(* activities are added, occurrences are toggled, the mode is switched     *)
(* and the interval fires at instants of a clock that only moves forward.  *)
(***************************************************************************)
SchedRules ==
    { NullRule,
      Rule("daily", 0, <<>>, 0),
      Rule("weekly", 0, << <<1>> >>, 0),
      Rule("monthly", 0, <<>>, 11) }

SchedPayloads ==
    { [categoryId |-> "c1", todos |-> <<>>, createdAt |-> TS(2024, 3, 4, 0, 0),
       time |-> <<9, 0>>, recurrence |-> r, responsiblePersonId |-> ""] :
      r \in SchedRules }

\* instants at which the interval fires: the day before the anchor, three on
\* the anchor's day around 08:55, and 08:57 of the next day
TickInstants ==
    { TS(2024, 3, 3, 8, 57),
      TS(2024, 3, 4, 8, 54), TS(2024, 3, 4, 8, 56), TS(2024, 3, 4, 8, 58),
      TS(2024, 3, 5, 8, 57) }

InitSched == InitStore

SchedAdd ==
    /\ nextUuid < MaxUuid
    /\ \E p \in SchedPayloads : addActivity(p, <<p.createdAt>>)
    /\ UNCHANGED <<genVars, schedVars, shellVars>>

SchedToggle ==
    /\ \E id \in ActivityIds, d \in ToggleDates, c \in BOOLEAN :
          toggleOccurrenceCompletion(id, d, c)
    /\ UNCHANGED <<genVars, schedVars, shellVars>>

SchedSetAppMode ==
    /\ \E mode \in {"personal", "work"} : setAppMode(mode)
    /\ UNCHANGED <<genVars, schedVars, shellVars>>

\* the tick with a write to the store added: it completes every activity of
\* the personal collection
SchedTick_CompletesActivities ==
    /\ \E t \in TickInstants : t >= now + 60 /\ Tick(t)
    /\ personalActivities' =
          [i \in 1..Len(personalActivities) |->
              [personalActivities[i] EXCEPT !.completed = TRUE]]
    /\ UNCHANGED <<genVars, workActivities, appModeState, nextUuid, lastOp, historyLog,
                   shellVars>>

\* the interval fires 60 s or more after the last time it did
SchedTick ==
    /\ \E t \in TickInstants : t >= now + 60 /\ Tick(t)
    /\ UNCHANGED <<genVars, storeVars, shellVars>>

NextSched ==
    \/ SchedAdd
    \/ SchedToggle
    \/ SchedSetAppMode
    \/ SchedTick

SpecSched == InitSched /\ [][NextSched]_vars

\* C1: over the ticks of one calendar day no notification key (activity id,
\* occurrence date key, reminder type) is emitted more than once; so two
\* ticks inside the five minutes before an occurrence never both emit its
\* "5min_soon" notification
C1_AtMostOnePerKeyAndDay ==
    \A e \in BagToSet(emitted) : CopiesIn(e, emitted) <= 1

\* C1 witness: the tick of 08:58 met the "5min_soon" key the tick of 08:56
\* had emitted for the 09:00 occurrence, and emitted nothing for it
C1_Witness ==
    /\ now = TS(2024, 3, 4, 8, 58)
    /\ \E id \in ActivityIds :
          /\ <<id, <<2024, 3, 4>>, "5min_soon">> \in notifiedToday
          /\ CopiesIn(<< <<id, <<2024, 3, 4>>, "5min_soon">>, <<2024, 3, 4>> >>, emitted) = 1
          /\ \E i \in 1..Len(uiNotifications) :
                /\ uiNotifications[i].activityId = id
                /\ uiNotifications[i].title = "toastActivityStartingSoonTitle"
                /\ uiNotifications[i].timestamp = TS(2024, 3, 4, 8, 56)

(***************************************************************************)
(* Specification SpecDay: a loaded, authenticated session holding one      *)
(* stored activity, left alone from 4 March 23:56 until 6 March 00:02: the *)
(* interval fires every 60 s, at the full minute or 30 s after it.         *)
(***************************************************************************)
\* the day the claims look at, and the last instant of the clock
TheDay == TS(2024, 3, 5, 0, 0)

DayEnd == TS(2024, 3, 6, 0, 2)

\* the instants the session may have been loaded at
DayStarts == { TS(2024, 3, 4, 23, 56), TS(2024, 3, 4, 23, 56) + 30 }

\* the activity's time: unset, 00:00, 00:03, 09:00, 23:59
DayTimes == { <<>>, << <<0, 0>> >>, << <<0, 3>> >>, << <<9, 0>> >>, << <<23, 59>> >> }

\* <<createdAt, recurrence>>: one activity on TheDay; since 4 March one
\* every day, one every Wednesday (6 March), one on the 6th and one on the
\* 12th of the month
DaySeries ==
    { <<TheDay, NoRule>>,
      <<TS(2024, 3, 4, 0, 0), Rule("daily", 0, <<>>, 0)>>,
      <<TS(2024, 3, 4, 0, 0), Rule("weekly", 0, << <<3>> >>, 0)>>,
      <<TS(2024, 3, 4, 0, 0), Rule("monthly", 0, <<>>, 6)>>,
      <<TS(2024, 3, 4, 0, 0), Rule("monthly", 0, <<>>, 12)>> }

\* the ledger: empty, the occurrence of TheDay marked complete, or the
\* occurrences of 6 and 12 March marked complete
DayLedgers ==
    { EmptyLedger, Ledger({formatISO(TheDay)}),
      Ledger({<<2024, 3, 6>>, <<2024, 3, 12>>}) }

DayActivities ==
    { Activity(1, s[1], IF t = <<>> THEN <<>> ELSE t[1], s[2], FALSE, l) :
        s \in DaySeries, t \in DayTimes, l \in DayLedgers }

InitDay ==
    /\ lastNotificationCheckDay = 0
    /\ notifiedToday = {}
    /\ uiNotifications = <<>>
    /\ emitted = EmptyBag
    /\ notificationUuids = 0
    /\ systemNotifications = 0
    /\ InitShellIdle
    /\ \E a \in DayActivities : personalActivities = <<a>>
    /\ workActivities = <<>>
    /\ appModeState = "personal"
    /\ nextUuid = 1
    /\ lastOp = [op |-> "none"]
    /\ historyLog = <<>>
    /\ dateFnsMajor = 3
    /\ genActivity = Activity(1, 0, <<>>, NoRule, FALSE, EmptyLedger)
    /\ genRangeStart = 0
    /\ genRangeEnd = 0
    /\ genResult = NotCalled
    /\ now \in DayStarts

\* setInterval(..., 60000): the callback runs 60 s after the last run
DayTick ==
    /\ now + 60 <= DayEnd
    /\ Tick(now + 60)
    /\ UNCHANGED <<genVars, storeVars, shellVars>>

NextDay == DayTick

SpecDay == InitDay /\ [][NextDay]_vars /\ WF_vars(DayTick)

\* the activity has an occurrence on the calendar day of date that is not
\* completed: the rule read directly, without the generator (no end date)
pendingOccurrenceOn(masterActivity, date) ==
    LET recurrence == masterActivity.recurrence
    IN  /\ DayOf(masterActivity.createdAt) <= DayOf(date)
        /\ CASE recurrence.type = "none" ->
                    /\ DayOf(masterActivity.createdAt) = DayOf(date)
                    /\ ~masterActivity.completed
             [] recurrence.type = "daily" -> TRUE
             [] recurrence.type = "weekly" ->
                    daysOfWeekIncludes(recurrence, getDay(date))
             [] recurrence.type = "monthly" ->
                    recurrence.dayOfMonth # 0 /\ getDate(date) = recurrence.dayOfMonth
             [] OTHER -> FALSE
        /\ ~isInstanceCompleted(masterActivity, formatISO(date))

\* the "5min_soon" key of the activity for the calendar day of date
soonKey(masterActivity, date) == <<masterActivity.id, formatISO(date), "5min_soon">>

\* the copies of key among the notifications emitted on the calendar day
\* of date
emittedOn(bag, key, date) == CopiesIn(<<key, formatISO(date)>>, bag)

\* the condition of C17 for one scanned activity at the instant tickNow,
\* the de-duplication set being notified
soonDue(masterActivity, tickNow, notified) ==
    /\ masterActivity.time # <<>>
    /\ pendingOccurrenceOn(masterActivity, tickNow)
    /\ soonKey(masterActivity, tickNow) \notin notified
    /\ LET delta == activityDateTime(tickNow, masterActivity.time) - tickNow
       IN  0 <= delta /\ delta <= 5 * 60

\* C17: a tick emits the "starting soon" notification of a scanned activity
\* exactly when the activity has a time, has a pending occurrence today, its
\* key is not in the de-duplication set, and the occurrence starts in 0 to
\* 5 minutes; it emits at most one, and nothing for an occurrence that has
\* started or is more than 5 minutes ahead
C17_SoonIffDue ==
    [][ \A i \in 1..Len(getRawActivities) :
           LET masterActivity == getRawActivities[i]
               key == soonKey(masterActivity, now')
           IN  /\ emittedOn(emitted', key, now') - emittedOn(emitted, key, now')
                    = IF soonDue(masterActivity, now', notifiedToday) THEN 1 ELSE 0
               /\ \A k \in { e[1] : e \in BagToSet(emitted') } :
                     (k[1] = masterActivity.id /\ k[3] = "5min_soon" /\ k # key)
                     => \A e \in BagToSet(emitted') :
                           e[1] = k => CopiesIn(e, emitted') = CopiesIn(e, emitted) ]_vars

\* C17 witness: the tick of 08:55 (or 08:55:30) emitted the notification of
\* the 09:00 occurrence, the tick before it being more than 5 minutes ahead
C17_Witness ==
    /\ DayOf(now) = DayOf(TheDay)
    /\ TimeOfDay(now) \in { (8 * 60 + 55) * 60, (8 * 60 + 55) * 60 + 30 }
    /\ personalActivities[1].time = <<9, 0>>
    /\ emittedOn(emitted, soonKey(personalActivities[1], now), now) = 1
    /\ uiNotifications # <<>>
    /\ uiNotifications[1].timestamp = now

\* the stored activity has a time and a pending occurrence on TheDay
timedPendingOnTheDay ==
    /\ personalActivities[1].time # <<>>
    /\ pendingOccurrenceOn(personalActivities[1], TheDay)

\* the "starting soon" notifications emitted so far on TheDay for the stored
\* activity's occurrence of TheDay
soonCount == emittedOn(emitted, soonKey(personalActivities[1], TheDay), TheDay)

\* the occurrence of TheDay has started: the clock is past the activity's time
startedOnTheDay ==
    /\ personalActivities[1].time # <<>>
    /\ now > activityDateTime(TheDay, personalActivities[1].time)

\* C18: in a session that ticks every 60 s through the day, a pending
\* occurrence today of an activity with a time gets its "starting soon"
\* notification exactly once: never twice, and once by the time the
\* occurrence starts, whatever the time of day (00:00 included)
C18_SoonExactlyOnce ==
    /\ soonCount <= 1
    /\ (timedPendingOnTheDay /\ startedOnTheDay) => soonCount = 1

\* the keys of the notifications emitted between two states
newlyEmitted(before, after) ==
    { e[1] : e \in { x \in BagToSet(after) : CopiesIn(x, after) > CopiesIn(x, before) } }

\* C20: a tick empties the de-duplication set exactly when the day of the
\* month of its instant differs from the one the previous tick recorded;
\* the keys the tick itself inserts are in the set after it, also on a
\* rollover, and a tick on the same day of the month removes no key
C20_ResetIffDayOfMonthChanged ==
    [][ now' # now
        => LET recorded == lastNotificationCheckDay
               inserted == newlyEmitted(emitted, emitted')
           IN  /\ lastNotificationCheckDay' = getDate(now')
               /\ (recorded # 0 /\ recorded # getDate(now'))
                  => notifiedToday' = inserted
               /\ ~(recorded # 0 /\ recorded # getDate(now'))
                  => notifiedToday' = notifiedToday \cup inserted ]_vars

\* C20 witness: the first tick of 6 March removed the key of 5 March and
\* kept the key it inserted for the 00:03 occurrence of 6 March
C20_Witness ==
    /\ DayOf(now) = DayOf(TheDay) + 1
    /\ TimeOfDay(now) < 60
    /\ lastNotificationCheckDay = 6
    /\ emittedOn(emitted, soonKey(personalActivities[1], TheDay), TheDay) = 1
    /\ notifiedToday = { soonKey(personalActivities[1], now) }

\* the type keys of the threshold notifications with the recurrence type
\* and the number of days before the occurrence each belongs to
ThresholdTypes ==
    { <<"1day_weekly", "weekly", 1>>, <<"1week_monthly", "monthly", 7>>,
      <<"2days_monthly", "monthly", 2>>, <<"1day_monthly", "monthly", 1>> }

\* the threshold keys C19 lets a tick at tickNow emit for the activity: one
\* per type of its recurrence type whose day lies that many days ahead of
\* today, is a pending occurrence, and whose key is not in the set
thresholdsDue(masterActivity, tickNow, notified) ==
    { key \in { <<masterActivity.id, formatISO(addDays(tickNow, ty[3])), ty[1]>> :
                ty \in { t \in ThresholdTypes :
                           /\ t[2] = masterActivity.recurrence.type
                           /\ pendingOccurrenceOn(masterActivity,
                                                  addDays(tickNow, t[3])) } } :
        key \notin notified }

\* C19: the threshold notifications a tick emits for a scanned activity are
\* exactly: for a weekly activity "1day_weekly" for a pending occurrence
\* tomorrow; for a monthly activity "1week_monthly", "2days_monthly" and
\* "1day_monthly" for a pending occurrence 7, 2 and 1 days after today;
\* none for a daily or non-recurring activity or a completed occurrence
C19_ThresholdsByRecurrenceType ==
    [][ now' # now
        => \A i \in 1..Len(getRawActivities) :
              { key \in newlyEmitted(emitted, emitted') :
                  key[1] = getRawActivities[i].id /\ key[3] # "5min_soon" }
                 = thresholdsDue(getRawActivities[i], now', notifiedToday) ]_vars

\* C19 witness: on 5 March the "1week_monthly" notification of the
\* occurrence of 12 March has been emitted
C19_Witness ==
    /\ DayOf(now) = DayOf(TheDay)
    /\ personalActivities[1].recurrence.type = "monthly"
    /\ emittedOn(emitted, <<1, <<2024, 3, 12>>, "1week_monthly">>, TheDay) = 1
    /\ <<1, <<2024, 3, 12>>, "1week_monthly">> \in notifiedToday

\* the same day for the weekly activity: "1day_weekly" for Wednesday 6 March
C19_WitnessWeekly ==
    /\ DayOf(now) = DayOf(TheDay)
    /\ personalActivities[1].recurrence.type = "weekly"
    /\ emittedOn(emitted, <<1, <<2024, 3, 6>>, "1day_weekly">>, TheDay) = 1

\* the monthly activity of the 6th: "2days_monthly" on 4 March and
\* "1day_monthly" on 5 March
C19_WitnessMonthlyNear ==
    /\ DayOf(now) = DayOf(TheDay)
    /\ emittedOn(emitted, <<1, <<2024, 3, 6>>, "2days_monthly">>, TS(2024, 3, 4, 0, 0)) = 1
    /\ emittedOn(emitted, <<1, <<2024, 3, 6>>, "1day_monthly">>, TheDay) = 1

(***************************************************************************)
(* Specification SpecNotif: the in-app notification list under             *)
(* addUINotification, markUINotificationAsRead and clearAllUINotifications *)
(* (lines 393-401 and 1332-1344), from the empty list.                     *)
(***************************************************************************)
MaxNotified == 52

\* the list never holds more than this many entries (line 400: 1 + 49)
MaxUINotifications == 50

NotifData ==
    { [title |-> t, activityId |-> 1, instanceDate |-> TS(2024, 3, 4, 0, 0), timestamp |-> 0]
        : t \in {"soon"} }

\* the ids mark-as-read is asked for: the oldest, the one past the cap, and
\* one that is never in the list
MarkIds == {1, 51, 99}

\* lines 1332-1336
markUINotificationAsRead(notificationId) ==
    uiNotifications' =
        [i \in 1..Len(uiNotifications) |->
            IF uiNotifications[i].id = notificationId
            THEN [uiNotifications[i] EXCEPT !.read = TRUE]
            ELSE uiNotifications[i]]

\* lines 1342-1344
clearAllUINotifications == uiNotifications' = <<>>

InitNotif == InitStore

NotifAdd ==
    /\ notificationUuids < MaxNotified
    /\ \E data \in NotifData :
          uiNotifications' = addUINotification(uiNotifications, data, notificationUuids + 1)
    /\ notificationUuids' = notificationUuids + 1
    /\ UNCHANGED <<genVars, storeVars, now, lastNotificationCheckDay, notifiedToday, emitted,
                   systemNotifications, shellVars>>

NotifMarkRead ==
    /\ \E id \in MarkIds : markUINotificationAsRead(id)
    /\ UNCHANGED <<genVars, storeVars, now, lastNotificationCheckDay, notifiedToday, emitted,
                   notificationUuids, systemNotifications, shellVars>>

NotifClear ==
    /\ clearAllUINotifications
    /\ notificationsCleared' = notificationUuids
    /\ UNCHANGED <<genVars, storeVars, now, lastNotificationCheckDay, notifiedToday, emitted,
                   notificationUuids, systemNotifications, notificationPermission,
                   notificationThrows, historyFollowed, allCategories, allAssignees,
                   isAuthenticated, subscribedIsAuthenticated, logoutEvents, pomodoroVars,
                intervalVars>>

NextNotif == NotifAdd \/ NotifMarkRead \/ NotifClear

SpecNotif == InitNotif /\ [][NextNotif]_vars

\* the ids of the records added since the last clear, the newest 50 of them
recentlyAdded ==
    { u \in 1..notificationUuids :
        /\ u > notificationsCleared
        /\ u > notificationUuids - MaxUINotifications }

\* C21: the in-app notification list holds at most 50 records, newest
\* first, and they are exactly the (up to) 50 records added most recently
\* since the last clear.
C21_NewestFiftySinceClear ==
    /\ Len(uiNotifications) <= MaxUINotifications
    /\ \A i \in 1..Len(uiNotifications) - 1 :
          uiNotifications[i].id > uiNotifications[i + 1].id
    /\ { uiNotifications[i].id : i \in 1..Len(uiNotifications) } = recentlyAdded

\* the 51st record was added without a clear: the first one is gone, and the
\* oldest one kept has been marked read in between
C21_Witness ==
    /\ notificationUuids = 51
    /\ notificationsCleared = 0
    /\ Len(uiNotifications) = 50
    /\ uiNotifications[1].id = 51
    /\ uiNotifications[50].id = 2
    /\ uiNotifications[1].read

\* records were added after a clear
C21_WitnessAfterClear ==
    /\ notificationsCleared = 3
    /\ notificationUuids = 5
    /\ Len(uiNotifications) = 2

(***************************************************************************)
(* Specification SpecPerm: the session of SpecSched in a browser whose     *)
(* notification permission is any of the three values of                   *)
(* Notification.permission or that has no Notification API, and whose      *)
(* Notification constructor works or throws. The session is loaded with a  *)
(* category and an assignee, and its activities have a todo.               *)
(***************************************************************************)
NotificationPermissions == {"granted", "denied", "default", "unsupported"}

InitPerm ==
    /\ InitStoreIdle
    /\ InitSchedIdle
    /\ notificationsCleared = 0
    /\ notificationPermission \in NotificationPermissions
    /\ notificationThrows \in BOOLEAN
    /\ historyFollowed = FALSE
    /\ allCategories = << [id |-> "c1", name |-> "n1", mode |-> "all"] >>
    /\ allAssignees = << [id |-> "a1", name |-> "n1"] >>
    /\ InitTabsIdle
    /\ dateFnsMajor = 3
    /\ genActivity = Activity(1, 0, <<>>, NoRule, FALSE, EmptyLedger)
    /\ genRangeStart = 0
    /\ genRangeEnd = 0
    /\ genResult = NotCalled

\* an activity with one todo is added
PermAdd ==
    /\ nextUuid < MaxUuid
    /\ \E p \in SchedPayloads :
          addActivity([p EXCEPT !.todos = << [id |-> 0, text |-> "a", completed |-> FALSE] >>,
                                !.responsiblePersonId = "a1"],
                      <<p.createdAt>>)
    /\ UNCHANGED <<genVars, schedVars, shellVars>>

NextPerm == PermAdd \/ SchedToggle \/ SchedTick

SpecPerm == InitPerm /\ [][NextPerm]_vars

\* C22: every notification a tick emits adds its in-app record, in front of
\* the list and with a fresh id, whatever the permission is and whether or
\* not the system notification can be shown; system notifications are shown
\* only when the permission is granted.
C22_RecordWhateverPermission ==
    [][ LET n == BagCardinality(emitted') - BagCardinality(emitted)
        IN  /\ notificationUuids' = notificationUuids + n
            /\ Len(uiNotifications') = Len(uiNotifications) + n
            /\ \A i \in 1..n : uiNotifications'[i].id > notificationUuids
            /\ \A i \in 1..Len(uiNotifications) :
                  uiNotifications'[n + i] = uiNotifications[i]
            /\ systemNotifications' # systemNotifications
                  => notificationPermission = "granted" ]_vars

\* a notification was recorded where the constructor throws under a granted
\* permission, and nothing was shown
C22_Witness ==
    /\ notificationPermission = "granted"
    /\ notificationThrows
    /\ Len(uiNotifications) >= 1
    /\ systemNotifications = 0

\* a notification was recorded without the Notification API
C22_WitnessUnsupported ==
    /\ notificationPermission = "unsupported"
    /\ Len(uiNotifications) >= 1
    /\ systemNotifications = 0

\* a notification was recorded and shown
C22_WitnessShown ==
    /\ notificationPermission = "granted"
    /\ Len(uiNotifications) >= 1
    /\ systemNotifications = Len(uiNotifications)

\* a notification was recorded under a denied permission
C22_WitnessDenied ==
    /\ notificationPermission = "denied"
    /\ Len(uiNotifications) >= 1
    /\ systemNotifications = 0

(***************************************************************************)
(* Specification SpecForm: activities with todos in the personal           *)
(* collection, under the activity form, the list item checkbox, the todo   *)
(* checkbox and updateActivity called with an id among its updates.        *)
(***************************************************************************)
MaxFormUuid == 4

MaxFormActivities == 2

FormAnchor == TS(2024, 3, 4, 9, 0)

\* todos of activityPayload (activity-modal.tsx lines 174-178): none, or one
\* carrying the id of an earlier todo and a set flag and one without an id
\* (0 stands for undefined)
FormTodoLists ==
    { <<>>,
      << [id |-> 1, text |-> "a", completed |-> TRUE],
         [id |-> 0, text |-> "b", completed |-> FALSE] >> }

TodoPayloads ==
    { [categoryId |-> "c1", todos |-> ts, createdAt |-> FormAnchor, time |-> <<9, 0>>,
       recurrence |-> r, completedOccurrences |-> Ledger({<<2024, 3, 4>>}),
       responsiblePersonId |-> ""] :
      ts \in FormTodoLists, r \in {NullRule, Rule("weekly", 0, << <<1, 3>> >>, 0)} }

\* the ids a caller takes from the activities on screen
storedIds == { getRawActivities[i].id : i \in 1..Len(getRawActivities) }

storedTodoIds(activityId) ==
    UNION { { a.todos[k].id : k \in 1..Len(a.todos) }
            : a \in activitiesWithId(getRawActivities, activityId) }

InitForm == InitStore

FormAdd ==
    /\ \E p \in TodoPayloads :
          /\ nextUuid + 1 + Len(p.todos) <= MaxFormUuid
          /\ Len(getRawActivities) < MaxFormActivities
          /\ addActivity(p, <<p.createdAt>>)
    /\ UNCHANGED <<genVars, schedVars, shellVars>>

\* the checkbox of the list item of a stored activity
FormCompletedChange ==
    /\ \E i \in 1..Len(getRawActivities), c \in BOOLEAN :
          handleActivityCompletedChange(getRawActivities[i], FormAnchor, c)
    /\ UNCHANGED <<genVars, schedVars, shellVars>>

\* updateActivity with an id among the updates
FormUpdateId ==
    /\ \E id \in storedIds, k \in storedIds : updateActivity(id, [id |-> k])
    /\ UNCHANGED <<genVars, schedVars, shellVars>>

FormDelete ==
    /\ \E id \in storedIds : deleteActivity(id)
    /\ UNCHANGED <<genVars, schedVars, shellVars>>

FormUpdateTodo ==
    /\ \E id \in storedIds : \E t \in storedTodoIds(id), c \in BOOLEAN :
          updateTodoInActivity(id, t, [completed |-> c])
    /\ UNCHANGED <<genVars, schedVars, shellVars>>

NextForm ==
    \/ FormAdd
    \/ FormCompletedChange
    \/ FormUpdateId
    \/ FormDelete
    \/ FormUpdateTodo

SpecForm == InitForm /\ [][NextForm]_vars

\* the ids of the activities and of their todos in a collection
idsIn(activities) ==
    { activities[i].id : i \in 1..Len(activities) }
    \cup UNION { { activities[i].todos[k].id : k \in 1..Len(activities[i].todos) }
                 : i \in 1..Len(activities) }

\* C23: addActivity appends an activity with a fresh id, completed = false,
\* an empty ledger and recurrence {type: none} unless a rule is supplied;
\* every todo of it gets a fresh id and completed = false whatever id,
\* flag or ledger the input carries.
C23_AddActivityFreshAndClean ==
    [][ \A p \in TodoPayloads :
          addActivity(p, <<p.createdAt>>) =>
             LET n == Len(personalActivities')
                 a == personalActivities'[n]
                 old == idsIn(personalActivities) \cup idsIn(workActivities)
             IN  /\ personalActivities' = Append(personalActivities, a)
                 /\ a.id \notin old
                 /\ a.completed = FALSE
                 /\ a.completedOccurrences = EmptyLedger
                 /\ a.recurrence = IF p.recurrence = NullRule THEN NoRule ELSE p.recurrence
                 /\ Len(a.todos) = Len(p.todos)
                 /\ \A k \in 1..Len(a.todos) :
                       /\ a.todos[k].id \notin old \cup {a.id}
                       /\ a.todos[k].completed = FALSE
                       /\ a.todos[k].text = p.todos[k].text
                       /\ \A j \in 1..Len(a.todos) :
                             j # k => a.todos[j].id # a.todos[k].id ]_vars

\* a second activity was added from a payload whose first todo carries the
\* id of a todo of the first activity and a set flag
C23_Witness ==
    /\ lastOp.op = "add"
    /\ Len(personalActivities) = 2
    /\ 1 \in idsIn(<<personalActivities[1]>>)
    /\ Len(personalActivities[2].todos) = 2
    /\ personalActivities[2].recurrence.type = "weekly"

\* C26: for a non-recurring activity, marking it completed sets completed
\* and completes every todo of it in the same update; marking it not
\* completed clears completed and leaves every todo's flag as it was.
C26_CompletedChangeAndTodos ==
    [][ \A i \in 1..Len(personalActivities), c \in BOOLEAN :
          ( /\ personalActivities[i].recurrence.type = "none"
            /\ handleActivityCompletedChange(personalActivities[i], FormAnchor, c) )
          => LET a == personalActivities[i]
                 b == personalActivities'[i]
             IN  /\ Len(personalActivities') = Len(personalActivities)
                 /\ b.completed = c
                 /\ Len(b.todos) = Len(a.todos)
                 /\ \A k \in 1..Len(a.todos) :
                       /\ b.todos[k].id = a.todos[k].id
                       /\ b.todos[k].text = a.todos[k].text
                       /\ b.todos[k].completed = (c \/ a.todos[k].completed) ]_vars

\* the checkbox was set on an activity with two todos
C26_Witness ==
    /\ lastOp.op = "update"
    /\ lastOp.fields = {"completed", "todos"}
    /\ \E i \in 1..Len(personalActivities) :
          /\ personalActivities[i].id = lastOp.id
          /\ personalActivities[i].completed
          /\ Len(personalActivities[i].todos) = 2
          /\ \A k \in 1..2 : personalActivities[i].todos[k].completed

\* the checkbox was cleared on an activity with one todo completed and the
\* other not
C26_WitnessCleared ==
    /\ lastOp.op = "update"
    /\ lastOp.fields = {"completed", "todos"}
    /\ \E i \in 1..Len(personalActivities) :
          /\ personalActivities[i].id = lastOp.id
          /\ ~personalActivities[i].completed
          /\ Len(personalActivities[i].todos) = 2
          /\ personalActivities[i].todos[1].completed
          /\ ~personalActivities[i].todos[2].completed

\* C30: all activities of a collection have pairwise distinct ids.
C30_DistinctIds ==
    \A i, j \in 1..Len(personalActivities) :
        i # j => personalActivities[i].id # personalActivities[j].id

\* C30: the id of an activity does not change between its creation and its
\* deletion: a step that neither adds nor removes an activity keeps the id
\* at every place of the collection.
C30_IdNeverChanges ==
    [][ Len(personalActivities') = Len(personalActivities)
          => \A i \in 1..Len(personalActivities) :
                personalActivities'[i].id = personalActivities[i].id ]_vars

(***************************************************************************)
(* Specification SpecCatalog: a session loaded with two categories and one *)
(* assignee (lines 511-610), in which activities are added in both modes   *)
(* and activities, categories and assignees are updated and deleted by     *)
(* ids that exist and ids that do not. The history log is followed.        *)
(***************************************************************************)
MaxLogged == 4

MaxCatalogActivities == 1

CategoryIds == {"c1", "c2", "c9"}

AssigneeIds == {"a1", "a9"}

\* an id no activity has
UnknownActivityIds == {0}

CatalogPayloads ==
    { [categoryId |-> c, todos |-> <<>>, createdAt |-> FormAnchor, time |-> <<9, 0>>,
       recurrence |-> NullRule, responsiblePersonId |-> "a1"] : c \in {"c1", "c2"} }

InitCatalog ==
    /\ InitStoreIdle
    /\ InitSchedIdle
    /\ notificationsCleared = 0
    /\ notificationPermission = "default"
    /\ notificationThrows = FALSE
    /\ historyFollowed = TRUE
    /\ allCategories = << [id |-> "c1", name |-> "n1", mode |-> "all"],
                          [id |-> "c2", name |-> "n2", mode |-> "personal"] >>
    /\ allAssignees = << [id |-> "a1", name |-> "n1"] >>
    /\ InitTabsIdle
    /\ dateFnsMajor = 3
    /\ genActivity = Activity(1, 0, <<>>, NoRule, FALSE, EmptyLedger)
    /\ genRangeStart = 0
    /\ genRangeEnd = 0
    /\ genResult = NotCalled

\* what no operation of this specification writes
catalogFrame ==
    UNCHANGED <<genVars, schedVars, notificationsCleared, notificationPermission,
                notificationThrows, historyFollowed,
                isAuthenticated, subscribedIsAuthenticated, logoutEvents, pomodoroVars,
                intervalVars>>

CatalogAdd ==
    /\ Len(historyLog) < MaxLogged
    /\ Len(getRawActivities) < MaxCatalogActivities
    /\ \E p \in CatalogPayloads : addActivity(p, <<p.createdAt>>)
    /\ UNCHANGED <<allCategories, allAssignees>>
    /\ catalogFrame

CatalogSetAppMode ==
    /\ Len(historyLog) < MaxLogged
    /\ \E mode \in {"personal", "work"} : setAppMode(mode)
    /\ UNCHANGED <<allCategories, allAssignees>>
    /\ catalogFrame

CatalogUpdateActivity ==
    /\ Len(historyLog) < MaxLogged
    /\ \E id \in storedIds \cup UnknownActivityIds :
          updateActivity(id, [categoryId |-> "c2"])
    /\ UNCHANGED <<allCategories, allAssignees>>
    /\ catalogFrame

CatalogDeleteActivity ==
    /\ Len(historyLog) < MaxLogged
    /\ \E id \in storedIds \cup UnknownActivityIds : deleteActivity(id)
    /\ UNCHANGED <<allCategories, allAssignees>>
    /\ catalogFrame

CatalogToggle ==
    /\ Len(historyLog) < MaxLogged
    /\ \E id \in storedIds \cup UnknownActivityIds :
          toggleOccurrenceCompletion(id, FormAnchor, TRUE)
    /\ UNCHANGED <<allCategories, allAssignees>>
    /\ catalogFrame

CatalogUpdateCategory ==
    /\ Len(historyLog) < MaxLogged
    /\ \E c \in CategoryIds : updateCategory(c, [name |-> "n3"])
    /\ catalogFrame

CatalogDeleteCategory ==
    /\ Len(historyLog) < MaxLogged
    /\ \E c \in CategoryIds : deleteCategory(c)
    /\ catalogFrame

CatalogUpdateAssignee ==
    /\ Len(historyLog) < MaxLogged
    /\ \E a \in AssigneeIds : updateAssignee(a, [name |-> "n3"])
    /\ catalogFrame

CatalogDeleteAssignee ==
    /\ Len(historyLog) < MaxLogged
    /\ \E a \in AssigneeIds : deleteAssignee(a)
    /\ catalogFrame

NextCatalog ==
    \/ CatalogAdd
    \/ CatalogSetAppMode
    \/ CatalogUpdateActivity
    \/ CatalogDeleteActivity
    \/ CatalogToggle
    \/ CatalogUpdateCategory
    \/ CatalogDeleteCategory
    \/ CatalogUpdateAssignee
    \/ CatalogDeleteAssignee

SpecCatalog == InitCatalog /\ [][NextCatalog]_vars

idsOf(records) == { records[i].id : i \in 1..Len(records) }

categoryIdsIn(activities) == { activities[i].categoryId : i \in 1..Len(activities) }

responsiblePersonIdsIn(activities) ==
    { activities[i].responsiblePersonId : i \in 1..Len(activities) }

\* the activities are the same but for the field, which is as it was or ""
sameButCleared(before, after, field, id) ==
    /\ Len(after) = Len(before)
    /\ \A i \in 1..Len(before) :
          after[i] = IF before[i][field] = id
                     THEN [before[i] EXCEPT ![field] = ""] ELSE before[i]

\* C24: deleteCategory(c) removes the category and empties categoryId on
\* every activity that referenced c, in both collections, removing no
\* activity; deleteAssignee(a) removes the assignee and clears
\* responsiblePersonId on every referencing activity; afterwards no
\* activity references the deleted id.
C24_DeleteClearsReferences ==
    [][ /\ \A c \in idsOf(allCategories) :
             deleteCategory(c) =>
                /\ allCategories' = withoutId(allCategories, c)
                /\ c \notin idsOf(allCategories')
                /\ sameButCleared(personalActivities, personalActivities', "categoryId", c)
                /\ sameButCleared(workActivities, workActivities', "categoryId", c)
                /\ c \notin categoryIdsIn(personalActivities')
                                \cup categoryIdsIn(workActivities')
        /\ \A a \in idsOf(allAssignees) :
             deleteAssignee(a) =>
                /\ allAssignees' = withoutId(allAssignees, a)
                /\ a \notin idsOf(allAssignees')
                /\ sameButCleared(personalActivities, personalActivities',
                                  "responsiblePersonId", a)
                /\ sameButCleared(workActivities, workActivities',
                                  "responsiblePersonId", a)
                /\ a \notin responsiblePersonIdsIn(personalActivities')
                                \cup responsiblePersonIdsIn(workActivities') ]_vars

\* category c1 was deleted while an activity of each collection carried it
C24_Witness ==
    /\ historyLog # <<>>
    /\ historyLog[1].actionKey = "historyLogDeleteCategory"
    /\ "c1" \notin idsOf(allCategories)
    /\ Len(personalActivities) = 1 /\ personalActivities[1].categoryId = ""
    /\ Len(workActivities) = 1 /\ workActivities[1].categoryId = ""

\* assignee a1 was deleted while a personal activity carried it
C24_WitnessAssignee ==
    /\ historyLog # <<>>
    /\ historyLog[1].actionKey = "historyLogDeleteAssignee"
    /\ allAssignees = <<>>
    /\ Len(personalActivities) = 1
    /\ personalActivities[1].responsiblePersonId = ""

\* C25: toggleOccurrenceCompletion, updateActivity, deleteActivity,
\* deleteCategory, updateCategory, deleteAssignee and updateAssignee called
\* with an id that matches no stored entity leave the activities, the
\* categories, the assignees and the history log unchanged.
C25_UnknownIdIsNoOp ==
    [][ LET unchanged == UNCHANGED <<personalActivities, workActivities, allCategories,
                                     allAssignees, historyLog>>
        IN  /\ \A id \in UnknownActivityIds \ storedIds :
                 /\ toggleOccurrenceCompletion(id, FormAnchor, TRUE) => unchanged
                 /\ updateActivity(id, [categoryId |-> "c2"]) => unchanged
                 /\ deleteActivity(id) => unchanged
            /\ \A c \in CategoryIds \ idsOf(allCategories) :
                 /\ deleteCategory(c) => unchanged
                 /\ updateCategory(c, [name |-> "n3"]) => unchanged
            /\ \A a \in AssigneeIds \ idsOf(allAssignees) :
                 /\ deleteAssignee(a) => unchanged
                 /\ updateAssignee(a, [name |-> "n3"]) => unchanged ]_vars

(***************************************************************************)
(* Specification SpecTabs: tabs of one browser sharing the BroadcastChannel *)
(* 'todoFlowLogoutChannel' (lines 123-126). A message posted by a tab is   *)
(* queued for every other tab and delivered there as a task of its own.    *)
(* The listener of a tab is the handleLogoutMessage of the render in which *)
(* the effect of lines 796-809 last ran. After a logout from the user      *)
(* interface the render and the effect run before the next task; after a   *)
(* logout from the message handler they run as later tasks, so the effect  *)
(* is a step of its own there. Of logout only the authentication flag and  *)
(* the broadcast are followed.                                             *)
(***************************************************************************)
MaxTabs == 3

MaxQueued == 2

Tabs == 1..MaxTabs

\* lines 477-509 in tab t: the flag cleared (479) and 'logout_event' posted
\* to every other tab (506-508)
logout(t) ==
    /\ isAuthenticated' = [isAuthenticated EXCEPT ![t] = FALSE]
    /\ \A u \in Tabs \ {t} : logoutEvents[u] < MaxQueued

\* the queues after tab t posted and, when it did so from its handler, took
\* one message off its own queue
posted(t, taken) ==
    [u \in Tabs |-> IF u = t THEN logoutEvents[u] - taken ELSE logoutEvents[u] + 1]

\* lines 798-802 in tab t with the message at the head of its queue
handleLogoutMessage(t) ==
    /\ logoutEvents[t] > 0
    /\ IF subscribedIsAuthenticated[t]
       THEN /\ logout(t)
            /\ logoutEvents' = posted(t, 1)
       ELSE /\ logoutEvents' = [logoutEvents EXCEPT ![t] = @ - 1]
            /\ UNCHANGED isAuthenticated
    /\ UNCHANGED subscribedIsAuthenticated

tabsFrame ==
    UNCHANGED <<genVars, storeVars, schedVars, notificationsCleared,
                notificationPermission, notificationThrows, historyFollowed,
                allCategories, allAssignees, pomodoroVars, intervalVars>>

InitTabs ==
    /\ InitStoreIdle
    /\ InitSchedIdle
    /\ notificationsCleared = 0
    /\ notificationPermission = "default"
    /\ notificationThrows = FALSE
    /\ historyFollowed = FALSE
    /\ allCategories = <<>>
    /\ allAssignees = <<>>
    /\ isAuthenticated \in [Tabs -> BOOLEAN]
    /\ subscribedIsAuthenticated = isAuthenticated
    /\ logoutEvents = [t \in Tabs |-> 0]
    /\ InitPomodoroIdle
    /\ InitIntervalIdle
    /\ dateFnsMajor = 3
    /\ genActivity = Activity(1, 0, <<>>, NoRule, FALSE, EmptyLedger)
    /\ genRangeStart = 0
    /\ genRangeEnd = 0
    /\ genResult = NotCalled

\* the user logs out in a tab that shows the authenticated interface; the
\* effect has run again when the event is over
TabLogout ==
    /\ \E t \in Tabs :
          /\ isAuthenticated[t]
          /\ subscribedIsAuthenticated[t]
          /\ logout(t)
          /\ logoutEvents' = posted(t, 0)
          /\ subscribedIsAuthenticated' = [subscribedIsAuthenticated EXCEPT ![t] = FALSE]
    /\ tabsFrame

\* the channel delivers a message to a tab
TabMessage ==
    /\ \E t \in Tabs : handleLogoutMessage(t)
    /\ tabsFrame

\* the effect of lines 796-809 runs again in a tab whose flag has changed
TabSubscribe ==
    /\ \E t \in Tabs :
          /\ subscribedIsAuthenticated[t] # isAuthenticated[t]
          /\ subscribedIsAuthenticated' =
                [subscribedIsAuthenticated EXCEPT ![t] = isAuthenticated[t]]
    /\ UNCHANGED <<isAuthenticated, logoutEvents>>
    /\ tabsFrame

NextTabs == TabLogout \/ TabMessage \/ TabSubscribe

SpecTabs == InitTabs /\ [][NextTabs]_vars

\* C27: a tab that is already logged out and receives a logout_event
\* changes no state and sends no further broadcast.
C27_LoggedOutTabStaysSilent ==
    [][ \A t \in Tabs :
          (~isAuthenticated[t] /\ handleLogoutMessage(t))
          => /\ isAuthenticated' = isAuthenticated
             /\ \A u \in Tabs \ {t} : logoutEvents'[u] = logoutEvents[u] ]_vars

(***************************************************************************)
(* Specification SpecPomodoro: the timer commands of lines 957-986, the    *)
(* service worker controller coming and going (controllerchange, lines     *)
(* 835-842) and TIMER_STATE messages from the service worker (844-885).    *)
(* The service worker is the environment: it sends any of a few payloads   *)
(* at any time.                                                            *)
(***************************************************************************)
MaxPosted == 3

TimerCommands ==
    { "START_WORK", "START_SHORT_BREAK", "START_LONG_BREAK",
      "PAUSE_TIMER", "RESUME_TIMER", "RESET_TIMER" }

TimerStates ==
    { [phase |-> "work", timeRemaining |-> POMODORO_WORK_DURATION_SECONDS - 1,
       isRunning |-> TRUE, cyclesCompleted |-> 0,
       phaseJustChanged |-> FALSE, previousPhase |-> "off"],
      [phase |-> "work", timeRemaining |-> POMODORO_WORK_DURATION_SECONDS,
       isRunning |-> TRUE, cyclesCompleted |-> 0,
       phaseJustChanged |-> TRUE, previousPhase |-> "off"],
      [phase |-> "off", timeRemaining |-> POMODORO_WORK_DURATION_SECONDS,
       isRunning |-> FALSE, cyclesCompleted |-> 0,
       phaseJustChanged |-> TRUE, previousPhase |-> ""],
      [phase |-> "shortBreak", timeRemaining |-> 5 * 60 - 1,
       isRunning |-> TRUE, cyclesCompleted |-> 1,
       phaseJustChanged |-> FALSE, previousPhase |-> "work"],
      [phase |-> "shortBreak", timeRemaining |-> 5 * 60,
       isRunning |-> TRUE, cyclesCompleted |-> 1,
       phaseJustChanged |-> TRUE, previousPhase |-> "work"],
      [phase |-> "work", timeRemaining |-> POMODORO_WORK_DURATION_SECONDS,
       isRunning |-> TRUE, cyclesCompleted |-> 1,
       phaseJustChanged |-> TRUE, previousPhase |-> "shortBreak"] }

\* lines 811-824 with the message kept for a later controller instead of
\* dropped
postToServiceWorker_Queued(message) ==
    /\ swPosted' = Append(swPosted, message)
    /\ pomodoroWarnings' = IF swController THEN pomodoroWarnings ELSE pomodoroWarnings + 1

\* lines 811-824: posted to the controller, or dropped with a toast
postToServiceWorker(message) ==
    IF swController
    THEN swPosted' = Append(swPosted, message) /\ UNCHANGED pomodoroWarnings
    ELSE pomodoroWarnings' = pomodoroWarnings + 1 /\ UNCHANGED swPosted

\* lines 855-868: the title of the notification of a phase that ended
phaseEndedTitle(previousPhase) ==
    IF previousPhase = "shortBreak" THEN "pomodoroShortBreakEnded"
    ELSE IF previousPhase = "longBreak" THEN "pomodoroLongBreakEnded"
    ELSE "pomodoroWorkSessionEnded"

\* lines 844-874 with the notification of line 854 decided by
\* phaseJustChanged alone
handleSWMessage_AnyPreviousPhase(payload) ==
    /\ pomodoroPhase' = payload.phase
    /\ pomodoroTimeRemaining' = payload.timeRemaining
    /\ pomodoroIsRunning' = payload.isRunning
    /\ pomodoroCyclesCompleted' = payload.cyclesCompleted
    /\ isPomodoroReady' = TRUE
    /\ IF payload.phaseJustChanged
       THEN /\ uiNotifications' =
                 addUINotification(uiNotifications,
                                   [title |-> phaseEndedTitle(payload.previousPhase),
                                    activityId |-> <<"pomodoro_cycle", payload.cyclesCompleted,
                                                     payload.previousPhase>>,
                                    instanceDate |-> 0, timestamp |-> now],
                                   notificationUuids + 1)
            /\ notificationUuids' = notificationUuids + 1
       ELSE UNCHANGED <<uiNotifications, notificationUuids>>

\* lines 844-874, a TIMER_STATE message: the payload becomes the foreground
\* state (847-852); a phase that ended is notified (854-873); "" stands for
\* an undefined previousPhase, and the description is left out
handleSWMessage(payload) ==
    /\ pomodoroPhase' = payload.phase
    /\ pomodoroTimeRemaining' = payload.timeRemaining
    /\ pomodoroIsRunning' = payload.isRunning
    /\ pomodoroCyclesCompleted' = payload.cyclesCompleted
    /\ isPomodoroReady' = TRUE
    /\ IF /\ payload.phaseJustChanged
          /\ payload.previousPhase # "off"
          /\ payload.previousPhase # ""
       THEN /\ uiNotifications' =
                 addUINotification(uiNotifications,
                                   [title |-> phaseEndedTitle(payload.previousPhase),
                                    activityId |-> <<"pomodoro_cycle", payload.cyclesCompleted,
                                                     payload.previousPhase>>,
                                    instanceDate |-> 0, timestamp |-> now],
                                   notificationUuids + 1)
            /\ notificationUuids' = notificationUuids + 1
       ELSE UNCHANGED <<uiNotifications, notificationUuids>>

pomodoroFrame ==
    UNCHANGED <<genVars, storeVars, now, lastNotificationCheckDay, notifiedToday, emitted,
                systemNotifications, notificationsCleared, notificationPermission,
                notificationThrows, historyFollowed, allCategories, allAssignees,
                isAuthenticated, subscribedIsAuthenticated, logoutEvents, intervalVars>>

InitPomodoro ==
    /\ InitStoreIdle
    /\ InitSchedIdle
    /\ notificationsCleared = 0
    /\ notificationPermission = "default"
    /\ notificationThrows = FALSE
    /\ historyFollowed = FALSE
    /\ allCategories = <<>>
    /\ allAssignees = <<>>
    /\ isAuthenticated = <<TRUE>>
    /\ subscribedIsAuthenticated = <<TRUE>>
    /\ logoutEvents = <<0>>
    /\ swController \in BOOLEAN
    /\ swPosted = <<>>
    /\ pomodoroWarnings = 0
    /\ pomodoroPhase = "off"
    /\ pomodoroTimeRemaining = POMODORO_WORK_DURATION_SECONDS
    /\ pomodoroIsRunning = FALSE
    /\ pomodoroCyclesCompleted = 0
    /\ isPomodoroReady = FALSE
    /\ InitIntervalIdle
    /\ dateFnsMajor = 3
    /\ genActivity = Activity(1, 0, <<>>, NoRule, FALSE, EmptyLedger)
    /\ genRangeStart = 0
    /\ genRangeEnd = 0
    /\ genResult = NotCalled

\* startPomodoroWork .. resetPomodoro (lines 957-986)
PomodoroCommand ==
    /\ Len(swPosted) + pomodoroWarnings < MaxPosted
    /\ \E type \in TimerCommands : postToServiceWorker(type)
    /\ UNCHANGED <<swController, pomodoroPhase, pomodoroTimeRemaining, pomodoroIsRunning,
                   pomodoroCyclesCompleted, isPomodoroReady,
                   uiNotifications, notificationUuids>>
    /\ pomodoroFrame

\* the controller goes away, or one takes over and handleControllerChange
\* asks it for its state
ControllerChange ==
    /\ swController' = ~swController
    /\ IF swController'
       THEN /\ Len(swPosted) + pomodoroWarnings < MaxPosted
            /\ swPosted' = Append(swPosted, "GET_INITIAL_STATE")
       ELSE UNCHANGED swPosted
    /\ UNCHANGED <<pomodoroWarnings, pomodoroPhase, pomodoroTimeRemaining, pomodoroIsRunning,
                   pomodoroCyclesCompleted, isPomodoroReady,
                   uiNotifications, notificationUuids>>
    /\ pomodoroFrame

TimerState ==
    /\ notificationUuids < MaxPosted
    /\ \E payload \in TimerStates : handleSWMessage(payload)
    /\ UNCHANGED <<swController, swPosted, pomodoroWarnings>>
    /\ pomodoroFrame

NextPomodoro == PomodoroCommand \/ ControllerChange \/ TimerState

SpecPomodoro == InitPomodoro /\ [][NextPomodoro]_vars

\* C28: without a service worker controller every timer command is
\* dropped: nothing is posted, a warning is shown, and phase, timeRemaining,
\* isRunning and cyclesCompleted are unchanged; nothing but
\* the command of a step with a controller, or GET_INITIAL_STATE of a
\* controller taking over, is ever posted, so no dropped command is sent
\* later.
C28_CommandDroppedWithoutController ==
    [][ /\ \A type \in TimerCommands :
             (~swController /\ postToServiceWorker(type))
             => /\ swPosted' = swPosted
                /\ pomodoroWarnings' = pomodoroWarnings + 1
                /\ UNCHANGED <<pomodoroPhase, pomodoroTimeRemaining, pomodoroIsRunning,
                               pomodoroCyclesCompleted>>
        /\ swPosted' # swPosted
             => /\ Len(swPosted') = Len(swPosted) + 1
                /\ SubSeq(swPosted', 1, Len(swPosted)) = swPosted
                /\ \/ swController /\ swController'
                   \/ /\ ~swController /\ swController'
                      /\ swPosted'[Len(swPosted')] = "GET_INITIAL_STATE" ]_vars

\* a command was dropped after the service worker had set a running work
\* phase, and the controller took over afterwards
C28_Witness ==
    /\ pomodoroWarnings = 1
    /\ swController
    /\ swPosted = <<"GET_INITIAL_STATE">>
    /\ pomodoroPhase = "work"
    /\ pomodoroIsRunning

\* C29: a tick, with the generator calls it makes, leaves the personal and
\* the work collection (ledgers and todo lists included), the categories
\* and the assignees exactly as they were; of the state of the session it
\* changes only the de-duplication set, the last-check day and the
\* notification list.
C29_TickWritesNoStore ==
    [][ (\E t \in TickInstants : t >= now + 60 /\ Tick(t))
        => /\ UNCHANGED <<personalActivities, workActivities, allCategories, allAssignees>>
           /\ UNCHANGED <<appModeState, nextUuid, historyLog, isAuthenticated,
                          pomodoroPhase, pomodoroTimeRemaining, pomodoroIsRunning,
                          pomodoroCyclesCompleted, isPomodoroReady>> ]_vars

\* a tick has emitted a notification for a stored activity that has a todo
\* and a ledger entry
C29_Witness ==
    /\ Len(uiNotifications) >= 1
    /\ Len(personalActivities) = 1
    /\ Len(personalActivities[1].todos) = 1
    /\ DOMAIN personalActivities[1].completedOccurrences # {}
    /\ lastNotificationCheckDay # 0

(***************************************************************************)
(* Specification SpecEdit: activities with todos in the personal           *)
(* collection, under the activity form (new and edited activities), the    *)
(* list item checkbox and the todo operations.                             *)
(***************************************************************************)
MaxEditUuid == 2

\* a todo the form appends (activity-modal.tsx line 578): it has no id, and
\* the text is typed before the form is submitted
appendedTodo == [id |-> 0, text |-> "b", completed |-> FALSE]

\* the rule the form of this specification submits: daily, no end date
EditRule == Rule("daily", 0, <<>>, 0)

\* activity-modal.tsx lines 171-185: activityPayload for the todos and the
\* rule the form holds; activity is the one the form was opened on, <<>>
\* for a new activity
activityPayload(activity, todos, recurrence) ==
    [categoryId |-> "c1",
     todos |-> [k \in 1..Len(todos) |->
                  [id |-> todos[k].id, text |-> todos[k].text,
                   completed |-> todos[k].completed]],
     createdAt |-> FormAnchor,
     time |-> <<9, 0>>,
     recurrence |-> recurrence,
     completedOccurrences |-> IF activity = <<>> THEN EmptyLedger
                              ELSE activity[1].completedOccurrences,
     responsiblePersonId |-> IF appModeState = "personal" THEN "a1" ELSE ""]

\* prev without the element at index (remove(index), line 567)
removeAt(todos, index) ==
    [k \in 1..(Len(todos) - 1) |-> IF k < index THEN todos[k] ELSE todos[k + 1]]

\* the todo lists the form opened on an activity can hold when it is
\* submitted: the stored todos (line 130), one of them removed (line 567),
\* or a new one appended (line 578) to todos that all have an id
formTodos(activity) ==
    {activity.todos}
    \cup { removeAt(activity.todos, k) : k \in 1..Len(activity.todos) }
    \cup { Append(activity.todos, appendedTodo) : x \in
              { y \in {1} : \A k \in 1..Len(activity.todos) :
                                activity.todos[k].id # 0 } }

InitEdit ==
    /\ InitStoreIdle
    /\ InitSchedIdle
    /\ notificationsCleared = 0
    /\ notificationPermission = "default"
    /\ notificationThrows = FALSE
    /\ historyFollowed = FALSE
    /\ allCategories = << [id |-> "c1", name |-> "n1", mode |-> "all"] >>
    /\ allAssignees = << [id |-> "a1", name |-> "n1"] >>
    /\ InitTabsIdle
    /\ dateFnsMajor = 3
    /\ genActivity = Activity(1, 0, <<>>, NoRule, FALSE, EmptyLedger)
    /\ genRangeStart = 0
    /\ genRangeEnd = 0
    /\ genResult = NotCalled

\* the form submitted for a new activity
EditAdd ==
    /\ \E ts \in {<<>>, <<appendedTodo>>} :
          /\ nextUuid + 1 + Len(ts) <= MaxEditUuid
          /\ addActivity(activityPayload(<<>>, ts, EditRule), <<FormAnchor>>)
    /\ UNCHANGED <<genVars, schedVars, shellVars>>

\* the form opened on a stored activity and submitted (lines 191-192)
EditSubmit ==
    /\ \E i \in 1..Len(getRawActivities) :
          \E ts \in formTodos(getRawActivities[i]) :
             updateActivity(getRawActivities[i].id,
                            activityPayload(<<getRawActivities[i]>>, ts, EditRule))
    /\ UNCHANGED <<genVars, schedVars, shellVars>>

\* the checkbox of the list item of a stored activity
EditCompletedChange ==
    /\ \E i \in 1..Len(getRawActivities), c \in BOOLEAN :
          handleActivityCompletedChange(getRawActivities[i], FormAnchor, c)
    /\ UNCHANGED <<genVars, schedVars, shellVars>>

EditDelete ==
    /\ \E id \in storedIds : deleteActivity(id)
    /\ UNCHANGED <<genVars, schedVars, shellVars>>

EditAddTodo ==
    /\ nextUuid < MaxEditUuid
    /\ \E id \in storedIds : addTodoToActivity(id, "b")
    /\ UNCHANGED <<genVars, schedVars, shellVars>>

EditUpdateTodo ==
    /\ \E id \in storedIds : \E t \in storedTodoIds(id) :
          updateTodoInActivity(id, t, [completed |-> TRUE])
    /\ UNCHANGED <<genVars, schedVars, shellVars>>

EditDeleteTodo ==
    /\ \E id \in storedIds : \E t \in storedTodoIds(id) :
          deleteTodoFromActivity(id, t)
    /\ UNCHANGED <<genVars, schedVars, shellVars>>

NextEdit ==
    \/ EditAdd
    \/ EditSubmit
    \/ EditCompletedChange
    \/ EditDelete
    \/ EditAddTodo
    \/ EditUpdateTodo
    \/ EditDeleteTodo

SpecEdit == InitEdit /\ [][NextEdit]_vars

(***************************************************************************)
(* Specification SpecModes: a session loaded with a category, an assignee  *)
(* and one activity in each collection (lines 511-610), in                 *)
(* which the mode is switched and, in either mode, activities are added,   *)
(* updated, toggled and deleted, todos are added, checked and deleted, and *)
(* the category and the assignee are deleted.                              *)
(***************************************************************************)
MaxModesUuid == 4

\* a stored daily activity, with one todo unless todoId is 0; the work
\* collection's has no responsible person (line 1056)
ModesStored(id, todoId, responsiblePersonId) ==
    [Activity(id, FormAnchor, <<9, 0>>, Rule("daily", 0, <<>>, 0), FALSE, EmptyLedger)
        EXCEPT !.todos = IF todoId = 0 THEN <<>> ELSE << [id |-> todoId, text |-> "a", completed |-> FALSE] >>,
               !.responsiblePersonId = responsiblePersonId]

InitModes ==
    /\ personalActivities = << ModesStored(1, 0, "a1") >>
    /\ workActivities = << ModesStored(2, 3, "") >>
    /\ appModeState \in {"personal", "work"}
    /\ nextUuid = 3
    /\ lastOp = [op |-> "none"]
    /\ historyLog = <<>>
    /\ InitSchedIdle
    /\ notificationsCleared = 0
    /\ notificationPermission = "default"
    /\ notificationThrows = FALSE
    /\ historyFollowed = FALSE
    /\ allCategories = << [id |-> "c1", name |-> "n1", mode |-> "all"] >>
    /\ allAssignees = << [id |-> "a1", name |-> "n1"] >>
    /\ InitTabsIdle
    /\ dateFnsMajor = 3
    /\ genActivity = Activity(1, 0, <<>>, NoRule, FALSE, EmptyLedger)
    /\ genRangeStart = 0
    /\ genRangeEnd = 0
    /\ genResult = NotCalled

ModesPayload ==
    [categoryId |-> "c1", todos |-> <<>>, createdAt |-> FormAnchor, time |-> <<10, 0>>,
     recurrence |-> Rule("daily", 0, <<>>, 0), responsiblePersonId |-> "a1"]

ModesAdd ==
    /\ nextUuid < MaxModesUuid
    /\ addActivity(ModesPayload, <<FormAnchor>>)
    /\ UNCHANGED <<genVars, schedVars, shellVars>>

ModesUpdate ==
    /\ \E id \in storedIds : updateActivity(id, [time |-> <<10, 0>>])
    /\ UNCHANGED <<genVars, schedVars, shellVars>>

ModesDelete ==
    /\ \E id \in storedIds : deleteActivity(id)
    /\ UNCHANGED <<genVars, schedVars, shellVars>>

ModesToggle ==
    /\ \E id \in storedIds : toggleOccurrenceCompletion(id, FormAnchor, TRUE)
    /\ UNCHANGED <<genVars, schedVars, shellVars>>

ModesAddTodo ==
    /\ nextUuid < MaxModesUuid
    /\ \E id \in storedIds : addTodoToActivity(id, "b")
    /\ UNCHANGED <<genVars, schedVars, shellVars>>

ModesUpdateTodo ==
    /\ \E id \in storedIds : \E t \in storedTodoIds(id) :
          updateTodoInActivity(id, t, [completed |-> TRUE])
    /\ UNCHANGED <<genVars, schedVars, shellVars>>

ModesDeleteTodo ==
    /\ \E id \in storedIds : \E t \in storedTodoIds(id) :
          deleteTodoFromActivity(id, t)
    /\ UNCHANGED <<genVars, schedVars, shellVars>>

ModesSetAppMode ==
    /\ \E mode \in {"personal", "work"} : setAppMode(mode)
    /\ UNCHANGED <<genVars, schedVars, shellVars>>

ModesDeleteCategory ==
    /\ deleteCategory("c1")
    /\ catalogFrame

ModesDeleteAssignee ==
    /\ deleteAssignee("a1")
    /\ catalogFrame

NextModes ==
    \/ ModesAdd
    \/ ModesUpdate
    \/ ModesDelete
    \/ ModesToggle
    \/ ModesAddTodo
    \/ ModesUpdateTodo
    \/ ModesDeleteTodo
    \/ ModesSetAppMode
    \/ ModesDeleteCategory
    \/ ModesDeleteAssignee

SpecModes == InitModes /\ [][NextModes]_vars

\* the activities of a collection differ from the ones before the step in
\* completedOccurrences at most, and only where the id is the given one
onlyLedgerOf(before, after, id) ==
    /\ Len(after) = Len(before)
    /\ \A i \in 1..Len(before) :
          /\ after[i] = [before[i] EXCEPT !.completedOccurrences =
                                             after[i].completedOccurrences]
          /\ before[i].id # id => after[i] = before[i]

\* C31: a step of toggleOccurrenceCompletion (called by the checkbox of a
\* recurring instance) leaves every activity with another id, in both
\* collections, as it was, and of the activity with the given id it changes
\* completedOccurrences only: todos, completed, recurrence and the other
\* fields are the ones before the step
C31_ToggleChangesOnlyLedger ==
    [][ (lastOp' # lastOp /\ lastOp'.op = "toggle")
        => /\ onlyLedgerOf(personalActivities, personalActivities', lastOp'.id)
           /\ onlyLedgerOf(workActivities, workActivities', lastOp'.id) ]_vars

\* an occurrence of an activity with a todo has been completed next to
\* another stored activity
C31_Witness ==
    /\ lastOp.op = "toggle" /\ lastOp.completed
    /\ Len(personalActivities) = 2
    /\ \E i \in 1..2 :
          /\ personalActivities[i].id = lastOp.id
          /\ personalActivities[i].recurrence.type = "daily"
          /\ Len(personalActivities[i].todos) = 1
          /\ lastOp.key \in DOMAIN personalActivities[i].completedOccurrences
          /\ personalActivities[3 - i].id # lastOp.id

(***************************************************************************)
(* Claims on the activity form's payload (SpecStore)                       *)
(***************************************************************************)
\* C32: the form submitted with recurrence type none (its payload carries
\* recurrence null) for a stored recurring activity leaves that activity
\* with recurrence type none and an empty ledger
C32_FormEditToNoneStopsRecurrence ==
    [][ \A id \in ActivityIds, u \in FormPayloads :
           ( /\ u.recurrence = NullRule
             /\ \E act \in activitiesWithId(getRawActivities, id) :
                   act.recurrence.type # "none"
             /\ updateActivity(id, u) )
           => \A act \in activitiesWithId(getRawActivities', id) :
                 /\ act.recurrence.type = "none"
                 /\ act.completedOccurrences = EmptyLedger ]_vars

\* the weekdays of a rule as a set
daysOfWeekSet(recurrence) ==
    IF recurrence.daysOfWeek = <<>> THEN {}
    ELSE { recurrence.daysOfWeek[1][k] : k \in 1..Len(recurrence.daysOfWeek[1]) }

\* the update supplies no rule, or one with the type, the dayOfMonth and the
\* set of weekdays of the stored rule and no other anchor date
keepsShape(act, updates) ==
    \/ "recurrence" \notin DOMAIN updates
    \/ updates.recurrence = NullRule
    \/ /\ updates.recurrence.type = act.recurrence.type
       /\ updates.recurrence.dayOfMonth = act.recurrence.dayOfMonth
       /\ daysOfWeekSet(updates.recurrence) = daysOfWeekSet(act.recurrence)
       /\ "createdAt" \in DOMAIN updates => updates.createdAt = act.createdAt

\* C33: an updateActivity that keeps the shape of the rule of the stored
\* recurring activity leaves its ledger as it was, whatever ledger the
\* payload carries
C33_SameShapeKeepsLedger ==
    [][ \A id \in ActivityIds, u \in StoreUpdates :
           updateActivity(id, u)
           => \A i \in 1..Len(getRawActivities) :
                 ( /\ getRawActivities[i].id = id
                   /\ getRawActivities[i].recurrence.type # "none"
                   /\ keepsShape(getRawActivities[i], u) )
                 => getRawActivities'[i].completedOccurrences
                       = getRawActivities[i].completedOccurrences ]_vars

(***************************************************************************)
(* Specification SpecInterval: one tab from mount on. The load effect      *)
(* (lines 511-610) ends loading and restores the session; the user logs in *)
(* and out, a sibling tab's logout_event arrives, the store is written,    *)
(* the wall clock advances in steps of 30 s, and the interval of lines     *)
(* 696-793 runs its callback when it is due. The effect is run again in    *)
(* the step that changes one of its dependencies (line 793): the old       *)
(* interval is cleared (792) and, when loading is over and the user is     *)
(* authenticated (697), a new one is set, due 60 s later (790).            *)
(***************************************************************************)
MaxAdvances == 6

MaxIntervalUuid == 2

MaxLogouts == 1

IntervalStart == TS(2024, 3, 4, 8, 54)

\* the activity localStorage holds: daily at 09:00 from 2024-03-04 on
IntervalStored ==
    Activity(1, FormAnchor, <<9, 0>>, Rule("daily", 0, <<>>, 0), FALSE, EmptyLedger)

\* the effect without the early return of line 697
effectInterval_NoGuard(loading, authenticated, t) == <<t>>

\* lines 697-699 and 790: the interval the effect leaves behind when it runs
\* at the instant t with these two flags
effectInterval(loading, authenticated, t) ==
    IF loading \/ ~authenticated THEN <<>> ELSE <<t>>

\* the effect of lines 696-793 run again after a change of personalActivities,
\* workActivities or appModeState
intervalReset ==
    /\ intervalId' = effectInterval(isLoading, isAuthenticated[1], now)
    /\ UNCHANGED <<isLoading, lastTickAt>>

intervalFrame ==
    UNCHANGED <<genVars, notificationsCleared, notificationPermission, notificationThrows,
                historyFollowed, allCategories, allAssignees, logoutEvents,
                swController, pomodoroWarnings, pomodoroPhase, pomodoroTimeRemaining,
                pomodoroIsRunning, pomodoroCyclesCompleted, isPomodoroReady>>

InitInterval ==
    /\ InitStoreIdle
    /\ InitSchedIdle
    /\ notificationsCleared = 0
    /\ notificationPermission = "granted"
    /\ notificationThrows = FALSE
    /\ historyFollowed = FALSE
    /\ allCategories = <<>>
    /\ allAssignees = <<>>
    /\ isAuthenticated = <<FALSE>>
    /\ subscribedIsAuthenticated = <<FALSE>>
    /\ logoutEvents = <<0>>
    /\ InitPomodoroIdle
    /\ isLoading = TRUE
    /\ intervalId = <<>>
    /\ lastTickAt = <<>>
    /\ dateFnsMajor = 3
    /\ genActivity = Activity(1, 0, <<>>, NoRule, FALSE, EmptyLedger)
    /\ genRangeStart = 0
    /\ genRangeEnd = 0
    /\ genResult = NotCalled

\* lines 511-610: the stored activity and the stored session are restored
\* and loading ends; initialAuth is what storage holds (571-581)
IntervalLoad ==
    /\ isLoading
    /\ isLoading' = FALSE
    /\ now' = IntervalStart
    /\ personalActivities' = <<IntervalStored>>
    /\ nextUuid' = 1
    /\ \E initialAuth \in BOOLEAN :
          /\ isAuthenticated' = <<initialAuth>>
          /\ subscribedIsAuthenticated' = <<initialAuth>>
          /\ intervalId' = effectInterval(FALSE, initialAuth, IntervalStart)
          /\ lastTickAt' = effectInterval(FALSE, initialAuth, IntervalStart)
    /\ UNCHANGED <<workActivities, appModeState, lastOp, historyLog,
                   lastNotificationCheckDay, notifiedToday, uiNotifications, emitted,
                   notificationUuids, systemNotifications, swPosted>>
    /\ intervalFrame

\* setIsAuthenticated(true) of the login page (lines 996-1020): the flag is
\* set and the login is notified
IntervalLogin ==
    /\ ~isLoading
    /\ ~isAuthenticated[1]
    /\ isAuthenticated' = <<TRUE>>
    /\ subscribedIsAuthenticated' = <<TRUE>>
    /\ uiNotifications' =
          addUINotification(uiNotifications,
                            [title |-> "loginSuccessNotificationTitle", activityId |-> 0,
                             instanceDate |-> 0, timestamp |-> now],
                            notificationUuids + 1)
    /\ notificationUuids' = notificationUuids + 1
    /\ systemNotifications' =
          systemNotifications
          + (IF showSystemNotification("loginSuccessNotificationTitle").shown
             THEN 1 ELSE 0)
    /\ intervalId' = effectInterval(isLoading, TRUE, now)
    /\ lastTickAt' = effectInterval(isLoading, TRUE, now)
    /\ UNCHANGED <<storeVars, now, lastNotificationCheckDay, notifiedToday, emitted,
                   swPosted, isLoading>>
    /\ intervalFrame

\* lines 477-509: the flag is cleared and, there being a controller,
\* RESET_TIMER is posted to the service worker (485-487)
intervalLogout ==
    /\ Len(swPosted) < MaxLogouts
    /\ isAuthenticated' = <<FALSE>>
    /\ subscribedIsAuthenticated' = <<FALSE>>
    /\ swPosted' = Append(swPosted, "RESET_TIMER")
    /\ intervalId' = effectInterval(isLoading, FALSE, now)
    /\ lastTickAt' = <<>>
    /\ UNCHANGED <<storeVars, schedVars, isLoading>>
    /\ intervalFrame

\* the user logs out in this tab
IntervalLogout ==
    /\ ~isLoading
    /\ isAuthenticated[1]
    /\ intervalLogout

\* a sibling tab's 'logout_event' arrives (lines 798-802)
IntervalLogoutEvent ==
    /\ ~isLoading
    /\ subscribedIsAuthenticated[1]
    /\ intervalLogout

\* store writes of the authenticated interface; each of them changes a
\* dependency of the effect
IntervalAdd ==
    /\ ~isLoading /\ isAuthenticated[1]
    /\ nextUuid < MaxIntervalUuid
    /\ addActivity([categoryId |-> "c1", todos |-> <<>>, createdAt |-> FormAnchor,
                    time |-> <<9, 0>>, recurrence |-> NullRule,
                    responsiblePersonId |-> ""], <<FormAnchor>>)
    /\ intervalReset
    /\ UNCHANGED <<schedVars, isAuthenticated, subscribedIsAuthenticated, swPosted>>
    /\ intervalFrame

IntervalUpdate ==
    /\ ~isLoading /\ isAuthenticated[1]
    /\ \E id \in storedIds : updateActivity(id, [time |-> <<9, 0>>])
    /\ intervalReset
    /\ UNCHANGED <<schedVars, isAuthenticated, subscribedIsAuthenticated, swPosted>>
    /\ intervalFrame

IntervalToggle ==
    /\ ~isLoading /\ isAuthenticated[1]
    /\ \E id \in storedIds : toggleOccurrenceCompletion(id, FormAnchor, FALSE)
    /\ intervalReset
    /\ UNCHANGED <<schedVars, isAuthenticated, subscribedIsAuthenticated, swPosted>>
    /\ intervalFrame

IntervalDelete ==
    /\ ~isLoading /\ isAuthenticated[1]
    /\ \E id \in storedIds : deleteActivity(id)
    /\ intervalReset
    /\ UNCHANGED <<schedVars, isAuthenticated, subscribedIsAuthenticated, swPosted>>
    /\ intervalFrame

IntervalSetAppMode ==
    /\ ~isLoading /\ isAuthenticated[1]
    /\ \E mode \in {"personal", "work"} \ {appModeState} : setAppMode(mode)
    /\ intervalReset
    /\ UNCHANGED <<schedVars, isAuthenticated, subscribedIsAuthenticated, swPosted>>
    /\ intervalFrame

\* 30 s pass; an interval that is due runs before more time passes
IntervalAdvance ==
    /\ ~isLoading
    /\ now < IntervalStart + 30 * MaxAdvances
    /\ intervalId # <<>> => now + 30 <= intervalId[1] + 60
    /\ now' = now + 30
    /\ UNCHANGED <<storeVars, lastNotificationCheckDay, notifiedToday, uiNotifications,
                   emitted, notificationUuids, systemNotifications, isAuthenticated,
                   subscribedIsAuthenticated, swPosted, intervalVars>>
    /\ intervalFrame

\* the interval is due (60000 ms after it was set or after its last run,
\* line 790) and its callback runs; the state the callback sets runs the
\* effect again at the same instant
IntervalTick ==
    /\ intervalId # <<>>
    /\ now = intervalId[1] + 60
    /\ Tick(now)
    /\ intervalId' = effectInterval(isLoading, isAuthenticated[1], now)
    /\ lastTickAt' = <<now>>
    /\ UNCHANGED <<storeVars, isAuthenticated, subscribedIsAuthenticated, swPosted,
                   isLoading>>
    /\ intervalFrame

NextInterval ==
    \/ IntervalLoad
    \/ IntervalLogin
    \/ IntervalLogout
    \/ IntervalLogoutEvent
    \/ IntervalAdd
    \/ IntervalUpdate
    \/ IntervalToggle
    \/ IntervalDelete
    \/ IntervalSetAppMode
    \/ IntervalAdvance
    \/ IntervalTick

SpecInterval == InitInterval /\ [][NextInterval]_vars

\* C34: while the user is authenticated and loading is over, the callback
\* runs every 60 s: never more than 60 s have passed since the session
\* started or since the callback last ran, whatever was written to the
\* store or whichever mode was selected in between
C34_TickEverySixtySeconds ==
    lastTickAt # <<>> => now - lastTickAt[1] <= 60

(***************************************************************************)
(* Specification SpecSession: SpecInterval without the store writes: the   *)
(* session is loaded, the user logs in and out, a sibling's logout_event   *)
(* arrives, the clock advances and the interval runs.                      *)
(***************************************************************************)
NextSession ==
    \/ IntervalLoad
    \/ IntervalLogin
    \/ IntervalLogout
    \/ IntervalLogoutEvent
    \/ IntervalAdvance
    \/ IntervalTick

SpecSession == InitInterval /\ [][NextSession]_vars

C35_TickScansBothCollections ==
    [][ (\E t \in TickInstants : t >= now + 60 /\ Tick(t))
        => \A act \in allStored :
              soonDue(act, now', notifiedToday)
              => emittedOn(emitted', soonKey(act, now'), now')
                    = emittedOn(emitted, soonKey(act, now'), now') + 1 ]_vars

(***************************************************************************)
(* Claims on the TIMER_STATE messages (SpecPomodoro)                       *)
(***************************************************************************)
\* the ids of the phase-end notifications in the list
phaseEndRecords(list) ==
    { list[i].id : i \in { j \in 1..Len(list) :
                             list[j].title \in { phaseEndedTitle(p) :
                                                   p \in {"work", "shortBreak", "longBreak"} } } }

\* C36: the step of a TIMER_STATE message leaves phase, timeRemaining,
\* isRunning and cyclesCompleted equal to the message's payload and the
\* timer ready, whatever they were before; it records one phase-end
\* notification, naming the cycle and the phase that ended, when the payload
\* has phaseJustChanged set and a previousPhase other than off and
\* undefined, and none otherwise
C36_ForegroundFollowsLastMessage ==
    [][ \A payload \in TimerStates :
           handleSWMessage(payload)
           => /\ pomodoroPhase' = payload.phase
              /\ pomodoroTimeRemaining' = payload.timeRemaining
              /\ pomodoroIsRunning' = payload.isRunning
              /\ pomodoroCyclesCompleted' = payload.cyclesCompleted
              /\ isPomodoroReady'
              /\ IF /\ payload.phaseJustChanged
                    /\ payload.previousPhase \notin {"off", ""}
                 THEN /\ Len(uiNotifications') = Len(uiNotifications) + 1
                      /\ Tail(uiNotifications') = uiNotifications
                      /\ uiNotifications'[1].activityId =
                            <<"pomodoro_cycle", payload.cyclesCompleted,
                              payload.previousPhase>>
                      /\ phaseEndRecords(uiNotifications')
                            = phaseEndRecords(uiNotifications)
                              \cup {uiNotifications'[1].id}
                      /\ uiNotifications'[1].id \notin phaseEndRecords(uiNotifications)
                 ELSE uiNotifications' = uiNotifications ]_vars

\* a work session and the short break after it have ended and been
\* notified, and a later message without a phase change is the one the
\* foreground shows
C36_Witness ==
    /\ Len(uiNotifications) = 2
    /\ uiNotifications[1].title = "pomodoroShortBreakEnded"
    /\ uiNotifications[2].title = "pomodoroWorkSessionEnded"
    /\ isPomodoroReady
    /\ pomodoroPhase = "shortBreak"
    /\ pomodoroTimeRemaining = 5 * 60 - 1
    /\ pomodoroCyclesCompleted = 1

(***************************************************************************)
(* Claims on the ids of todos (SpecEdit)                                   *)
(***************************************************************************)
\* C37: every todo of every stored activity has an id (0 stands for
\* undefined), and the todos of one activity have different ids
C37_TodoIdsDefinedAndDistinct ==
    \A act \in allStored :
       /\ \A k \in 1..Len(act.todos) : act.todos[k].id # 0
       /\ \A k1, k2 \in 1..Len(act.todos) :
             k1 # k2 => act.todos[k1].id # act.todos[k2].id

\* the collection of the mode that is not selected is written by the step
otherCollectionWritten ==
    IF appModeState = "work"
    THEN personalActivities' # personalActivities
    ELSE workActivities' # workActivities

\* C38: a step that writes the collection of the mode that is not selected
\* is a deleteCategory or, in work mode, a deleteAssignee: addActivity,
\* updateActivity, deleteActivity, toggleOccurrenceCompletion and the todo
\* operations write the selected mode's collection only, and the mode
\* switch writes none
C38_WritesOnlySelectedMode ==
    [][ otherCollectionWritten
        => \/ \E c \in CategoryIds : deleteCategory(c)
           \/ /\ appModeState = "work"
              /\ \E a \in AssigneeIds : deleteAssignee(a) ]_vars

\* in work mode a todo has been added to the work activity and checked and
\* an occurrence completed, the personal activity being as it was loaded
C38_Witness ==
    /\ appModeState = "work"
    /\ personalActivities = << ModesStored(1, 0, "a1") >>
    /\ Len(workActivities) = 1
    /\ Len(workActivities[1].todos) = 2
    /\ workActivities[1].todos[1].completed
    /\ DOMAIN workActivities[1].completedOccurrences # {}

\* in work mode the assignee has been deleted, and the personal activity has
\* lost its responsible person
C38_WitnessAssignee ==
    /\ appModeState = "work"
    /\ allAssignees = <<>>
    /\ Len(personalActivities) = 1
    /\ personalActivities[1].responsiblePersonId = ""

====
